---------------------------- MODULE Spec2Model ----------------------------
(***************************************************************************)
(* repo-translate: extraction of comments / text blocks from source files, *)
(* re-injection of translated text, parser dispatch, the translate         *)
(* command's per-file loop, the translator's batch calls, the layered      *)
(* configuration and the credential store.                                 *)
(*                                                                         *)
(* A Python str is a sequence of one-character strings; "\n" is the line   *)
(* separator.  A Python list is a sequence; list indices are 0-based in    *)
(* the source and are converted where a sequence is indexed.               *)
(***************************************************************************)
EXTENDS Integers, Sequences, FiniteSets, TLC

VARIABLES
    parser,        \* class of the parser object in use, "none" before dispatch
    content,       \* the content string of the current file
    tree,          \* the syntax tree the parsing library builds for content
    pr,            \* parse_result: the ParseResult of the current file
    translations,  \* the translations dict handed to inject_translations
    out,           \* outcome of the inject_translations call
    pc,            \* position of the caller
    hasAstComments,\* python.py HAS_AST_COMMENTS: whether the import succeeded
    failAt,        \* comments appended before the C extraction raises, or -1
    got,           \* outcome of the last get_parser call
    objects,       \* the parser objects constructed so far
    groups,        \* translate: file_groups, in dict insertion order
    gi,            \* translate: position in file_groups.items()
    fi,            \* translate: position in the files of the current group
    source,        \* translate: the content as read from the file
    commentMap,    \* translate: comment_map of the current file
    blockMap,      \* translate: block_map of the current file
    phaseLog,      \* translate: the inject calls made for the current file
    written,       \* translate: the files written so far
    texts,         \* translator: the list given to translate_file_comments
    batch_size,    \* translator: batch_size of the call
    bi,            \* translator: the loop variable i of the call
    results,       \* translator: results of the call
    calls,         \* translator: the translate_batch calls made by the call
    cli_args,      \* load_config: the cli_args argument
    projectFile,   \* load_config: the project config file found, if any
    globalFile,    \* load_config: GLOBAL_CONFIG_FILE
    environ,       \* load_config: os.environ
    config,        \* load_config: the RepoTranslateConfig returned
    authFile,      \* auth/store.py: the file AUTH_FILE
    authLog        \* auth/store.py: the calls made so far and what they returned

vars == <<parser, content, tree, pr, translations, out, pc, hasAstComments,
          failAt, got, objects, groups, gi, fi, source, commentMap,
          blockMap, phaseLog, written, texts, batch_size, bi, results, calls,
          cli_args, projectFile, globalFile, environ, config, authFile,
          authLog>>

apiVars == <<content, tree, pr, translations, out, failAt>>

runVars == <<groups, gi, fi, source, commentMap, blockMap, phaseLog, written>>

trVars == <<texts, batch_size, bi, results, calls>>

cfgVars == <<cli_args, projectFile, globalFile, environ, config>>

authVars == <<authFile, authLog>>

---------------------------------------------------------------------------
(* Bounds of the model *)

\* source chunks concatenated into one file
MaxItems == 2

\* largest key of a translations dict
MaxKey == 2

\* number of keys of a translations dict
MaxMapSize == 2

\* comments the C extraction appends before it raises
MaxFailAt == 1

\* files found by one repository scan
MaxFiles == 2

\* source chunks of a file of a repository
MaxRunItems == 1

\* successful get_parser calls of one caller
MaxCalls == 3

\* texts given to one translate_file_comments / translate_markdown_blocks call
MaxTexts == 3

\* set_auth, remove and get calls of one run
MaxAuthCalls == 3

---------------------------------------------------------------------------
(* Python str and list primitives *)

NL == "\n"

Min(S) == CHOOSE x \in S : \A y \in S : x <= y

Max(S) == CHOOSE x \in S : \A y \in S : x >= y

\* s[a:b] for 0 <= a, clamped as Python clamps slices
Slice(s, a, b) ==
    LET e == IF b > Len(s) THEN Len(s) ELSE b
    IN  IF a >= e THEN << >> ELSE SubSeq(s, a + 1, e)

\* s[a:]
SliceFrom(s, a) == Slice(s, a, Len(s))

\* p occurs in s at 0-based offset i
MatchAt(s, p, i) ==
    /\ i >= 0
    /\ i + Len(p) <= Len(s)
    /\ \A k \in 1..Len(p) : s[i + k] = p[k]

\* str.startswith
StartsWith(s, p) == MatchAt(s, p, 0)

\* str.find(p, from): lowest 0-based index, or -1
FindFrom(s, p, from) ==
    LET hits == {i \in from..(Len(s) - Len(p)) : MatchAt(s, p, i)}
    IN  IF hits = {} THEN -1 ELSE Min(hits)

Find(s, p) == FindFrom(s, p, 0)

\* p in s
Contains(s, p) == Find(s, p) # -1

\* str.lstrip(chars)
LStrip(s, chars) ==
    LET keep == {i \in 1..Len(s) : s[i] \notin chars}
    IN  IF keep = {} THEN << >> ELSE SubSeq(s, Min(keep), Len(s))

\* str.rstrip(chars)
RStrip(s, chars) ==
    LET keep == {i \in 1..Len(s) : s[i] \notin chars}
    IN  IF keep = {} THEN << >> ELSE SubSeq(s, 1, Max(keep))

\* str.strip(chars)
StripChars(s, chars) == RStrip(LStrip(s, chars), chars)

Whitespace == {" ", "\t", NL}

\* str.strip()
Strip(s) == StripChars(s, Whitespace)

\* the leading run of blanks and tabs of a line (the injectors' indent loop)
LeadingIndent(line) ==
    LET stop == {i \in 1..Len(line) : line[i] \notin {" ", "\t"}}
    IN  IF stop = {} THEN line ELSE SubSeq(line, 1, Min(stop) - 1)

RECURSIVE Split(_)
\* str.splitlines: a final newline yields no empty last line
SplitLines(s) ==
    LET p == Find(s, <<NL>>)
    IN  IF p = -1 THEN <<s>>
        ELSE IF p = Len(s) - 1 THEN <<Slice(s, 0, p)>>
        ELSE <<Slice(s, 0, p)>> \o Split(SliceFrom(s, p + 1))

\* s.split("\n")
Split(s) ==
    LET p == Find(s, <<NL>>)
    IN  IF p = -1 THEN <<s>>
        ELSE <<Slice(s, 0, p)>> \o Split(SliceFrom(s, p + 1))

RECURSIVE Join(_)
\* "\n".join(lines)
Join(lines) ==
    IF lines = << >> THEN << >>
    ELSE IF Len(lines) = 1 THEN lines[1]
    ELSE lines[1] \o <<NL>> \o Join(Tail(lines))

\* lines[start:end] = new, for 0 <= start
SliceAssign(lines, start, end, new) ==
    LET s == IF start > Len(lines) THEN Len(lines) ELSE start
        e0 == IF end > Len(lines) THEN Len(lines) ELSE end
        e == IF e0 < s THEN s ELSE e0
    IN  SubSeq(lines, 1, s) \o new \o SubSeq(lines, e + 1, Len(lines))

\* lines[i] = v, for 0 <= i < len(lines)
SetItem(lines, i, v) == [lines EXCEPT ![i + 1] = v]

RECURSIVE SortedDesc(_)
\* sorted(keys, reverse=True)
SortedDesc(S) ==
    IF S = {} THEN << >>
    ELSE LET m == Max(S) IN <<m>> \o SortedDesc(S \ {m})

RECURSIVE SortByLineStart(_)
\* list.sort(key=lambda c: c.line_start): stable insertion by line_start
SortByLineStart(cs) ==
    IF cs = << >> THEN << >>
    ELSE LET rest == SortByLineStart(SubSeq(cs, 1, Len(cs) - 1))
             last == cs[Len(cs)]
             before == {i \in 1..Len(rest) : rest[i].line_start <= last.line_start}
             k == IF before = {} THEN 0 ELSE Max(before)
         IN  SubSeq(rest, 1, k) \o <<last>> \o SubSeq(rest, k + 1, Len(rest))

---------------------------------------------------------------------------
(* base.py: the span model *)

SINGLE_LINE == "single"
MULTI_LINE == "multi"
DOCSTRING == "docstring"
DOC_COMMENT == "doc"

\* Comment(...) with __post_init__: an unset original defaults to text
Comment(text, type, line_start, line_end, column_start, column_end, original) ==
    [text |-> text, type |-> type,
     line_start |-> line_start, line_end |-> line_end,
     column_start |-> column_start, column_end |-> column_end,
     original |-> IF original = << >> THEN text ELSE original]

\* TextBlock(...) with __post_init__
TextBlock(text, line_start, line_end, is_code, code_language) ==
    [text |-> text, line_start |-> line_start, line_end |-> line_end,
     is_code |-> is_code, code_language |-> code_language, original |-> text]

\* ParseResult(file_path, raw_content) with empty lists
EmptyResult == [comments |-> << >>, text_blocks |-> << >>]

\* list[idx] as Python resolves it: the 1-based position, or 0 for IndexError
ListPos(list, idx) ==
    IF idx >= 0
    THEN (IF idx < Len(list) THEN idx + 1 ELSE 0)
    ELSE (IF idx + Len(list) >= 0 THEN idx + Len(list) + 1 ELSE 0)

\* state of an inject_translations loop: the lines list, or an escaped error
Lines(ls) == [raised |-> FALSE, lines |-> ls]

Raised == [raised |-> TRUE, lines |-> << >>]

---------------------------------------------------------------------------
(* parser/markdown.py *)

\* the backquote character (a TLA+ string cannot hold it literally)
BQ == "BQ"

Fence == <<BQ, BQ, BQ>>

HtmlOpen == <<"<", "!", "-", "-">>

HtmlClose == <<"-", "-", ">">>

\* \w over the alphabet of the model
WordChars == {"a", "b", "c", "d", "e", "f", "g", "h", "m", "n", "o", "p", "s",
              "t", "u", "v", "w", "x", "y", "_", "1"}

\* re.match(r"^BQBQBQ(\w*)", line) is not None
FenceMatch(line) == StartsWith(line, Fence)

\* code_match.group(1): the longest run of word characters after the fence
FenceLang(line) ==
    LET rest == SliceFrom(line, 3)
        stop == {i \in 1..Len(rest) : rest[i] \notin WordChars}
    IN  IF stop = {} THEN rest ELSE SubSeq(rest, 1, Min(stop) - 1)

RECURSIVE HtmlCommentsFrom(_, _)
\* re.findall(r"<!--(.+?)-->", line, re.DOTALL), scanning from offset from
HtmlCommentsFrom(line, from) ==
    LET p == FindFrom(line, HtmlOpen, from)
        q == FindFrom(line, HtmlClose, p + 5)
    IN  IF p = -1 THEN << >>
        ELSE IF q = -1 THEN HtmlCommentsFrom(line, p + 1)
        ELSE <<Slice(line, p + 4, q)>> \o HtmlCommentsFrom(line, q + 3)

HtmlComments(line) == HtmlCommentsFrom(line, 0)

\* the matched text is kept as it stands, blanks included
MdLineCommentsRaw(line, i) ==
    LET found == HtmlComments(line)
    IN  [k \in 1..Len(found) |->
            Comment(found[k], MULTI_LINE, i, i, 0, 0, << >>)]

\* the Comment objects appended for one line outside a fence
MdLineComments(line, i) ==
    LET found == HtmlComments(line)
    IN  [k \in 1..Len(found) |->
            Comment(Strip(found[k]), MULTI_LINE, i, i, 0, 0, << >>)]

MdParseInit ==
    [in_code_block |-> FALSE, code_lang |-> << >>,
     current_block_lines |-> << >>, block_start |-> 0,
     comments |-> << >>, text_blocks |-> << >>]

\* one iteration of the loop over enumerate(lines, 1)
MdParseLine(st, i, line) ==
    IF FenceMatch(line)
    THEN IF st.in_code_block
         THEN [st EXCEPT
                 !.text_blocks =
                     IF st.current_block_lines # << >>
                     THEN Append(@, TextBlock(Join(st.current_block_lines),
                                     st.block_start, i - 1, TRUE, st.code_lang))
                     ELSE @,
                 !.current_block_lines = << >>,
                 !.in_code_block = FALSE]
         ELSE [st EXCEPT
                 !.text_blocks =
                     IF st.current_block_lines # << >>
                     THEN Append(@, TextBlock(Join(st.current_block_lines),
                                     st.block_start, i - 1, FALSE, << >>))
                     ELSE @,
                 !.current_block_lines = << >>,
                 !.in_code_block = TRUE,
                 !.code_lang = FenceLang(line),
                 !.block_start = i]
    ELSE IF st.in_code_block
         THEN [st EXCEPT !.current_block_lines = Append(@, line)]
         ELSE [st EXCEPT
                 !.comments = @ \o MdLineComments(line, i),
                 !.block_start = IF st.current_block_lines = << >> THEN i ELSE @,
                 !.current_block_lines = Append(@, line)]

RECURSIVE MdParseLoop(_, _, _)
MdParseLoop(lines, i, st) ==
    IF i > Len(lines) THEN st
    ELSE MdParseLoop(lines, i + 1, MdParseLine(st, i, lines[i]))

\* the block pending at the end of the file is not flushed
MdParseNoTail(text) ==
    LET st == MdParseLoop(Split(text), 1, MdParseInit)
    IN  [comments |-> st.comments, text_blocks |-> st.text_blocks]

\* MarkdownParser.parse
MdParse(text) ==
    LET lines == Split(text)
        st == MdParseLoop(lines, 1, MdParseInit)
        blocks ==
            IF st.current_block_lines # << >>
            THEN Append(st.text_blocks,
                    TextBlock(Join(st.current_block_lines), st.block_start,
                              Len(lines), st.in_code_block,
                              IF st.in_code_block THEN st.code_lang ELSE << >>))
            ELSE st.text_blocks
    IN  [comments |-> st.comments, text_blocks |-> blocks]

\* the replacement of one block's line range by the translated text
MdReplace(st, block, translated_text) ==
    Lines(SliceAssign(st.lines, block.line_start - 1, block.line_end,
                      Split(translated_text)))

\* a code block is written like any other block
MdInjectBlockNoSkip(st, idx, T, res) ==
    IF ListPos(res.text_blocks, idx) = 0 THEN Raised
    ELSE MdReplace(st, res.text_blocks[ListPos(res.text_blocks, idx)], T[idx])

\* the loop body of MarkdownParser.inject_translations past the bounds check
MdInjectBlock(st, idx, T, res) ==
    IF ListPos(res.text_blocks, idx) = 0 THEN Raised
    ELSE LET block == res.text_blocks[ListPos(res.text_blocks, idx)]
         IN  IF block.is_code THEN st
             ELSE MdReplace(st, block, T[idx])

\* one iteration of the loop of MarkdownParser.inject_translations
MdInjectStep(st, idx, T, res) ==
    IF st.raised \/ idx >= Len(res.text_blocks) THEN st
    ELSE MdInjectBlock(st, idx, T, res)

---------------------------------------------------------------------------
(* parser/c_cpp.py *)

\* 0-based row of the character offset off (tree-sitter Point.row)
RowOf(text, off) == Cardinality({k \in 1..off : text[k] = NL})

\* 0-based column of the character offset off (tree-sitter Point.column)
ColOf(text, off) ==
    LET nls == {k \in 1..off : text[k] = NL}
    IN  IF nls = {} THEN off ELSE off - Max(nls)

RECURSIVE CScan(_, _)
\* the comment nodes of the tree-sitter C tree of text, in source order, as
\* [start, end) character offsets: a // comment runs to the end of its line,
\* a /* comment to its */, and neither starts inside a string literal
CScan(text, i) ==
    IF i >= Len(text) THEN << >>
    ELSE IF MatchAt(text, <<"/", "/">>, i)
    THEN LET nl == FindFrom(text, <<NL>>, i)
             e == IF nl = -1 THEN Len(text) ELSE nl
         IN  <<[start |-> i, end |-> e]>> \o CScan(text, e)
    ELSE IF MatchAt(text, <<"/", "*">>, i)
    THEN LET close == FindFrom(text, <<"*", "/">>, i + 2)
         IN  IF close = -1 THEN << >>
             ELSE <<[start |-> i, end |-> close + 2]>> \o CScan(text, close + 2)
    ELSE IF text[i + 1] = "\""
    THEN LET q == FindFrom(text, <<"\"">>, i + 1)
             nl == FindFrom(text, <<NL>>, i + 1)
         IN  IF q # -1 /\ (nl = -1 \/ q < nl) THEN CScan(text, q + 1)
             ELSE IF nl = -1 THEN << >>
             ELSE CScan(text, nl)
    ELSE CScan(text, i + 1)

\* the classification of CCppParser._extract_comments
CCommentType(comment_text) ==
    IF StartsWith(comment_text, <<"/", "*", "*">>)
       \/ StartsWith(comment_text, <<"/", "*", "!">>)
    THEN DOC_COMMENT
    ELSE IF StartsWith(comment_text, <<"/", "/", "/">>) THEN DOC_COMMENT
    ELSE IF StartsWith(comment_text, <<"/", "*">>) THEN MULTI_LINE
    ELSE SINGLE_LINE

\* the per-line loop of _clean_comment_text for block comments
CCleanLine(line) ==
    LET l == Strip(line)
    IN  IF StartsWith(l, <<"*">>) THEN Strip(SliceFrom(l, 1)) ELSE l

\* CCppParser._clean_comment_text
CCleanCommentText(comment, comment_type) ==
    IF comment_type = SINGLE_LINE THEN Strip(LStrip(comment, {"/"}))
    ELSE IF comment_type = DOC_COMMENT /\ StartsWith(comment, <<"/", "/", "/">>)
    THEN Strip(StripChars(comment, {"/"}))
    ELSE LET text == Strip(StripChars(StripChars(comment, {"/", "*"}), {"*", "/"}))
             ls == Split(text)
         IN  Strip(Join([k \in 1..Len(ls) |-> CCleanLine(ls[k])]))

\* the Comment appended by _extract_comments for one comment node
CNodeComment(text, node) ==
    LET comment_text == Slice(text, node.start, node.end)
        comment_type == CCommentType(comment_text)
    IN  Comment(CCleanCommentText(comment_text, comment_type), comment_type,
                RowOf(text, node.start) + 1, RowOf(text, node.end) + 1,
                ColOf(text, node.start), ColOf(text, node.end), comment_text)

\* CCppParser.parse: fail is the number of comments appended before an
\* exception is raised in the try block, or -1 when none is raised
CParse(text, fail) ==
    LET nodes == CScan(text, 0)
        n == IF fail = -1 \/ fail > Len(nodes) THEN Len(nodes) ELSE fail
        appended == [k \in 1..n |-> CNodeComment(text, nodes[k])]
    IN  [comments |-> SortByLineStart(appended), text_blocks |-> << >>]

\* the indentation is dropped
CDocLineLinesFlush(indent, trans_lines) ==
    [k \in 1..Len(trans_lines) |-> <<"/", "/", "/", " ">> \o trans_lines[k]]

\* new_lines of the /// branch of the C injector
CDocLineLines(indent, trans_lines) ==
    [k \in 1..Len(trans_lines) |->
        indent \o <<"/", "/", "/", " ">> \o trans_lines[k]]

\* the closing line is left out
CBlockLinesOpen(indent, open, cont, trans_lines) ==
    <<indent \o open>>
    \o [k \in 1..Len(trans_lines) |-> indent \o cont \o trans_lines[k]]

\* the lines emitted for a block comment by the C injector
CBlockLines(indent, open, cont, trans_lines) ==
    <<indent \o open>>
    \o [k \in 1..Len(trans_lines) |-> indent \o cont \o trans_lines[k]]
    \o <<indent \o <<" ", "*", "/">>>>

\* the loop body of CCppParser.inject_translations past the bounds check
CInjectComment(st, idx, T, res) ==
    IF ListPos(res.comments, idx) = 0 THEN Raised
    ELSE LET comment == res.comments[ListPos(res.comments, idx)]
             translated == T[idx]
             start_line == comment.line_start - 1
             end_line == comment.line_end - 1
             lines == st.lines
             trans_lines == Split(translated)
         IN  IF comment.type \notin {SINGLE_LINE, DOC_COMMENT, MULTI_LINE} THEN st
             ELSE IF start_line >= Len(lines) THEN Raised
             ELSE LET original_line == lines[start_line + 1]
                      indent == LeadingIndent(original_line)
                  IN
                  IF comment.type = SINGLE_LINE
                  THEN LET slash_pos == Find(original_line, <<"/", "/">>)
                           prefix == IF slash_pos = -1
                                     THEN Slice(original_line, 0, Len(original_line) - 1)
                                     ELSE Slice(original_line, 0, slash_pos)
                       IN  Lines(SetItem(lines, start_line,
                                   prefix \o <<"/", "/", " ">> \o translated))
                  ELSE IF comment.type = DOC_COMMENT
                          /\ StartsWith(comment.original, <<"/", "/", "/">>)
                  THEN Lines(SliceAssign(lines, start_line, end_line + 1,
                          CDocLineLines(indent, trans_lines)))
                  ELSE IF comment.type = DOC_COMMENT
                  THEN IF Len(trans_lines) = 1
                       THEN Lines(SetItem(lines, start_line,
                               indent \o <<"/", "*", "*", " ">> \o translated
                                      \o <<" ", "*", "/">>))
                       ELSE Lines(SliceAssign(lines, start_line, end_line + 1,
                               CBlockLines(indent, <<"/", "*", "*">>,
                                           <<" ", "*", " ">>, trans_lines)))
                  ELSE IF Len(trans_lines) = 1
                       THEN Lines(SetItem(lines, start_line,
                               indent \o <<"/", "*", " ">> \o translated
                                      \o <<" ", "*", "/">>))
                       ELSE Lines(SliceAssign(lines, start_line, end_line + 1,
                               CBlockLines(indent, <<"/", "*">>,
                                           <<" ", " ", " ">>, trans_lines)))

\* the bounds check lets idx = len(comments) through
CInjectStepOffByOne(st, idx, T, res) ==
    IF st.raised \/ idx > Len(res.comments) THEN st
    ELSE CInjectComment(st, idx, T, res)

\* one iteration of the loop of CCppParser.inject_translations
CInjectStep(st, idx, T, res) ==
    IF st.raised \/ idx >= Len(res.comments) THEN st
    ELSE CInjectComment(st, idx, T, res)

---------------------------------------------------------------------------
(* parser/python.py *)

DQ3 == <<"\"", "\"", "\"">>

SQ3 == <<"'", "'", "'">>

\* a node of the tree ast.parse / ast_comments.parse builds: kind is Module,
\* FunctionDef, ClassDef, Str (an Expr holding a string Constant), Comment
\* (ast_comments only) or Other; positions as the ast module reports them;
\* doc is inspect.cleandoc of a Str's value; value is a Comment's text
Node(kind, lineno, col_offset, end_lineno, end_col_offset, doc, value, body) ==
    [kind |-> kind, lineno |-> lineno, col_offset |-> col_offset,
     end_lineno |-> end_lineno, end_col_offset |-> end_col_offset,
     doc |-> doc, value |-> value, body |-> body]

RECURSIVE Concat(_)
Concat(ss) == IF ss = << >> THEN << >> ELSE ss[1] \o Concat(Tail(ss))

RECURSIVE Walk(_)
\* ast.walk: breadth-first, a node's children in body order
Walk(level) ==
    IF level = << >> THEN << >>
    ELSE level \o Walk(Concat([k \in 1..Len(level) |-> level[k].body]))

RECURSIVE SelectNodes(_, _)
SelectNodes(ns, kinds) ==
    IF ns = << >> THEN << >>
    ELSE (IF ns[1].kind \in kinds THEN <<ns[1]>> ELSE << >>)
         \o SelectNodes(Tail(ns), kinds)

RECURSIVE WithoutComments(_)
\* the tree the standard ast module builds: the same tree without Comment nodes
WithoutComments(node) ==
    LET kept == SelectNodes(node.body,
                    {"FunctionDef", "ClassDef", "Str", "Other", "Module"})
    IN  [node EXCEPT !.body = [k \in 1..Len(kept) |-> WithoutComments(kept[k])]]

DefKinds == {"FunctionDef", "ClassDef", "Module"}

\* ast.get_docstring(node) is truthy and node.body[0] is an Expr
HasDocstring(node) ==
    /\ node.kind \in DefKinds
    /\ node.body # << >>
    /\ node.body[1].kind = "Str"
    /\ node.body[1].doc # << >>

\* PythonParser._detect_quote_style
DetectQuoteStyle(text, docstring) ==
    LET pos == Find(text, docstring)
        before == Slice(text, IF pos - 10 > 0 THEN pos - 10 ELSE 0, pos)
    IN  IF pos <= 0 THEN DQ3
        ELSE IF Contains(before, DQ3) THEN DQ3
        ELSE SQ3

\* the Comment appended for a Comment node of ast_comments
PyCommentOf(node) ==
    Comment(Strip(LStrip(node.value, {"#"})), SINGLE_LINE,
            node.lineno, node.lineno,
            node.col_offset, node.col_offset + Len(node.value), node.value)

\* the Comment appended for a docstring on the ast_comments path
PyDocstringOf(text, node) ==
    LET doc_node == node.body[1]
        quote_style == DetectQuoteStyle(text, doc_node.doc)
    IN  Comment(doc_node.doc, DOCSTRING, doc_node.lineno, doc_node.end_lineno,
                doc_node.col_offset, doc_node.end_col_offset,
                quote_style \o doc_node.doc \o quote_style)

\* the Comment appended for a docstring by _parse_standard: no columns, no original
PyStandardDocstringOf(node) ==
    LET doc_node == node.body[1]
    IN  Comment(doc_node.doc, DOCSTRING, doc_node.lineno, doc_node.end_lineno,
                0, 0, << >>)

RECURSIVE DocNodes(_)
\* the nodes of a walk that carry a docstring, in walk order
DocNodes(ns) ==
    IF ns = << >> THEN << >>
    ELSE (IF HasDocstring(ns[1]) THEN <<ns[1]>> ELSE << >>) \o DocNodes(Tail(ns))

\* the SyntaxError is swallowed and the statements read so far are kept
PyParseStandardPartial(text, t) ==
    LET docs == DocNodes(Walk(<<WithoutComments(t.root)>>))
    IN  [comments |-> [k \in 1..Len(docs) |-> PyStandardDocstringOf(docs[k])],
         text_blocks |-> << >>]

\* PythonParser._parse_standard: docstrings in walk order, not sorted
PyParseStandard(text, t) ==
    IF t.bad THEN EmptyResult
    ELSE LET docs == DocNodes(Walk(<<WithoutComments(t.root)>>))
         IN  [comments |-> [k \in 1..Len(docs) |-> PyStandardDocstringOf(docs[k])],
              text_blocks |-> << >>]

\* PythonParser.parse; t is the tree of text (t.bad: the text is a SyntaxError)
PyParse(text, t, has_ast_comments) ==
    IF ~has_ast_comments THEN PyParseStandard(text, t)
    ELSE IF t.bad THEN EmptyResult
    ELSE LET walk == Walk(<<t.root>>)
             cnodes == SelectNodes(walk, {"Comment"})
             docs == DocNodes(walk)
             appended ==
                 [k \in 1..Len(cnodes) |-> PyCommentOf(cnodes[k])]
                 \o [k \in 1..Len(docs) |-> PyDocstringOf(text, docs[k])]
         IN  [comments |-> SortByLineStart(appended), text_blocks |-> << >>]

\* the loop body of PythonParser.inject_translations past the bounds check
PyInjectComment(st, idx, T, res) ==
    IF ListPos(res.comments, idx) = 0 THEN Raised
    ELSE LET comment == res.comments[ListPos(res.comments, idx)]
             translated == T[idx]
             start_line == comment.line_start - 1
             end_line == comment.line_end - 1
             lines == st.lines
         IN  IF comment.type = SINGLE_LINE
             THEN IF start_line >= Len(lines) THEN Raised
                  ELSE LET original_line == lines[start_line + 1]
                           hash_pos == Find(original_line, <<"#">>)
                       IN  IF hash_pos = -1 THEN st
                           ELSE Lines(SetItem(lines, start_line,
                                   Slice(original_line, 0, hash_pos + 1)
                                   \o <<" ">> \o translated))
             ELSE IF comment.type = DOCSTRING
             THEN IF start_line >= Len(lines) THEN Raised
                  ELSE LET quote == IF Contains(comment.original, DQ3)
                                    THEN DQ3 ELSE SQ3
                           indent == LeadingIndent(lines[start_line + 1])
                           trans_lines == Split(translated)
                       IN  IF start_line = end_line
                           THEN Lines(SetItem(lines, start_line,
                                   indent \o quote \o translated \o quote))
                           ELSE Lines(SliceAssign(lines, start_line, end_line + 1,
                                   <<indent \o quote>>
                                   \o [k \in 1..Len(trans_lines) |->
                                         indent \o <<" ", " ", " ", " ">>
                                                \o trans_lines[k]]
                                   \o <<indent \o quote>>))
             ELSE IF comment.type = MULTI_LINE
             THEN Lines(SliceAssign(lines, start_line, end_line + 1,
                                    Split(translated)))
             ELSE st

\* one iteration of the loop of PythonParser.inject_translations
PyInjectStep(st, idx, T, res) ==
    IF st.raised \/ idx >= Len(res.comments) THEN st
    ELSE PyInjectComment(st, idx, T, res)

---------------------------------------------------------------------------
(* inject_translations of a parser object of class tag *)

InjectStep(tag, st, idx, T, res) ==
    IF tag = "MarkdownParser" THEN MdInjectStep(st, idx, T, res)
    ELSE IF tag = "PythonParser" THEN PyInjectStep(st, idx, T, res)
    ELSE CInjectStep(st, idx, T, res)

RECURSIVE InjectLoop(_, _, _, _, _)
\* for idx in keys: the loop over the keys in the order given
InjectLoop(tag, st, keys, T, res) ==
    IF keys = << >> THEN st
    ELSE InjectLoop(tag, InjectStep(tag, st, keys[1], T, res), Tail(keys), T, res)

\* the name of the list inject_translations of class cls indexes with the keys
SpanListName(cls) ==
    IF cls = "MarkdownParser" THEN "text_blocks" ELSE "comments"

\* the list itself
SpanList(cls, res) ==
    IF SpanListName(cls) = "text_blocks" THEN res.text_blocks ELSE res.comments

\* Parser.inject_translations: the returned string, or the escaped exception
InjectTranslations(tag, text, T, res) ==
    LET st == InjectLoop(tag, Lines(Split(text)), SortedDesc(DOMAIN T), T, res)
    IN  IF st.raised THEN [raised |-> TRUE, text |-> << >>]
        ELSE [raised |-> FALSE, text |-> Join(st.lines)]

---------------------------------------------------------------------------
(* Inputs: file contents are concatenations of at most MaxItems chunks, one
   per line group, joined by newlines; backend answers are drawn from TrTexts *)

\* 'a'
MdProse ==
    <<"a">>

\* ''
MdBlank ==
    << >>

\* '<!-- h -->'
MdHtml ==
    <<"<", "!", "-", "-", " ", "h", " ", "-", "-", ">">>

\* 'BQBQBQp\nc\nBQBQBQ'
MdFenced ==
    <<BQ, BQ, BQ, "p", NL, "c", NL, BQ, BQ, BQ>>

\* 'BQBQBQ'
MdFence ==
    <<BQ, BQ, BQ>>

\* 'a\nBQBQBQpython\nc\nBQBQBQ\nb': prose, a fenced python block, prose
MdDocument ==
    <<"a", NL, BQ, BQ, BQ, "p", "y", "t", "h", "o", "n", NL, "c", NL,
      BQ, BQ, BQ, NL, "b">>

\* 'a<!--g--><!-- h -->\nBQBQBQ<!--g-->': two HTML comments on a prose line, then
\* an opening fence line that holds one
MdHtmlTwo ==
    <<"a">> \o HtmlOpen \o <<"g">> \o HtmlClose \o MdHtml
    \o <<NL>> \o Fence \o HtmlOpen \o <<"g">> \o HtmlClose

MdItems == {MdProse, MdBlank, MdHtml, MdFenced, MdFence, MdDocument, MdHtmlTwo}

\* 'x;'
CCode ==
    <<"x", ";">>

\* '// c'
CLine ==
    <<"/", "/", " ", "c">>

\* 'x; // c'
CTrailing ==
    <<"x", ";", " ", "/", "/", " ", "c">>

\* ' /// d'
CDocLine ==
    <<" ", "/", "/", "/", " ", "d">>

\* '/* m */'
CBlock ==
    <<"/", "*", " ", "m", " ", "*", "/">>

\* 'x; /* m */'
CCodeBlock ==
    <<"x", ";", " ", "/", "*", " ", "m", " ", "*", "/">>

\* ' /** j */'
CDocBlock ==
    <<" ", "/", "*", "*", " ", "j", " ", "*", "/">>

\* '/* m\n * n */'
CBlock2 ==
    <<"/", "*", " ", "m", NL, " ", "*", " ", "n", " ", "*", "/">>

\* 's="//"; // c'
CStringSlash ==
    <<"s", "=", "\"", "/", "/", "\"", ";", " ", "/", "/", " ", "c">>

\* '/* a */ /* b */'
CTwoBlocks ==
    <<"/", "*", " ", "a", " ", "*", "/", " ", "/", "*", " ", "b", " ", "*", "/">>

CItems == {CCode, CLine, CTrailing, CDocLine, CBlock,
           CCodeBlock, CDocBlock, CBlock2, CStringSlash, CTwoBlocks}

\* a backend answer of one line and one of two lines
TrOne ==
    <<"t">>

TrTwo ==
    <<"u", NL, "v">>

TrTexts == {TrOne, TrTwo}

\* a chunk of Python source: its text, whether it is a syntax error, and the
\* statements the parser builds for it, with line numbers relative to the chunk
PyItem(src, bad, stmts) == [src |-> src, bad |-> bad, stmts |-> stmts]

Leaf(kind, lineno, col_offset, end_lineno, end_col_offset, doc, value) ==
    Node(kind, lineno, col_offset, end_lineno, end_col_offset, doc, value, << >>)

\* 'x=1'
PyAssign ==
    PyItem(<<"x", "=", "1">>, FALSE,
        <<Leaf("Other", 0, 0, 0, 3, << >>, << >>)>>)

\* '# c'
PyHash ==
    PyItem(<<"#", " ", "c">>, FALSE,
        <<Leaf("Comment", 0, 0, 0, 3, << >>, <<"#", " ", "c">>)>>)

\* 's="#" #c'
PyStringHash ==
    PyItem(<<"s", "=", "\"", "#", "\"", " ", "#", "c">>, FALSE,
        <<Leaf("Other", 0, 0, 0, 5, << >>, << >>),
          Leaf("Comment", 0, 6, 0, 8, << >>, <<"#", "c">>)>>)

\* "'''d'''"
PyDocSingle ==
    PyItem(<<"'", "'", "'", "d", "'", "'", "'">>, FALSE,
        <<Leaf("Str", 0, 0, 0, 7, <<"d">>, << >>)>>)

\* 'def f(): """e"""'
PyDefInline ==
    PyItem(<<"d", "e", "f", " ", "f", "(", ")", ":", " ", "\"", "\"", "\"", "e", "\"", "\"", "\"">>, FALSE,
        <<Node("FunctionDef", 0, 0, 0, 16, << >>, << >>,
             <<Leaf("Str", 0, 9, 0, 16, <<"e">>, << >>)>>)>>)

\* "def g():\n '''d\n e'''"
PyDefMulti ==
    PyItem(<<"d", "e", "f", " ", "g", "(", ")", ":", NL, " ", "'", "'", "'", "d", NL, " ", "e", "'", "'", "'">>, FALSE,
        <<Node("FunctionDef", 0, 0, 2, 5, << >>, << >>,
             <<Leaf("Str", 1, 1, 2, 5, <<"d", NL, "e">>, << >>)>>)>>)

\* 'class A:\n def m(s):\n  """e\n  f"""'
PyClass ==
    PyItem(<<"c", "l", "a", "s", "s", " ", "A", ":", NL, " ", "d", "e", "f", " ", "m", "(", "s", ")", ":", NL, " ", " ", "\"", "\"", "\"", "e", NL, " ", " ", "f", "\"", "\"", "\"">>, FALSE,
        <<Node("ClassDef", 0, 0, 3, 6, << >>, << >>,
             <<Node("FunctionDef", 1, 1, 3, 6, << >>, << >>,
                 <<Leaf("Str", 2, 2, 3, 6, <<"e", NL, "f">>, << >>)>>)>>)>>)

\* '"""d""" #c'
PyDocHash ==
    PyItem(<<"\"", "\"", "\"", "d", "\"", "\"", "\"", " ", "#", "c">>, FALSE,
        <<Leaf("Str", 0, 0, 0, 7, <<"d">>, << >>),
          Leaf("Comment", 0, 8, 0, 10, << >>, <<"#", "c">>)>>)

\* 'x=('
PyBad ==
    PyItem(<<"x", "=", "(">>, TRUE,
        <<>>)

PyItems == {PyAssign, PyHash, PyStringHash, PyDocSingle, PyDefInline,
            PyDefMulti, PyClass, PyDocHash, PyBad}

RECURSIVE LineCount(_)
LineCount(srcs) ==
    IF srcs = << >> THEN 0
    ELSE Len(Split(srcs[1])) + LineCount(Tail(srcs))

RECURSIVE Shift(_, _)
\* a node of a chunk that starts on line first: its absolute positions
Shift(node, first) ==
    [node EXCEPT !.lineno = @ + first, !.end_lineno = @ + first,
                 !.body = [k \in 1..Len(node.body) |-> Shift(node.body[k], first)]]

\* the tree of a Python file made of the chunks items
PyTree(items) ==
    LET first(k) == 1 + LineCount([j \in 1..(k - 1) |-> items[j].src])
        stmts(k) == [j \in 1..Len(items[k].stmts) |->
                        Shift(items[k].stmts[j], first(k))]
        total == LineCount([j \in 1..Len(items) |-> items[j].src])
    IN  [bad |-> \E k \in 1..Len(items) : items[k].bad,
         root |-> Node("Module", 0, 0, total, 0, << >>, << >>,
                       Concat([k \in 1..Len(items) |-> stmts(k)]))]

NoTree == [bad |-> FALSE, root |-> Node("Module", 0, 0, 0, 0, << >>, << >>, << >>)]

\* sequences of at most n elements of S
SeqUpTo(S, n) == UNION {[1..k -> S] : k \in 0..n}

ParserClasses == {"MarkdownParser", "PythonParser", "CCppParser"}

\* the files of at most n chunks a parser can be given: [text, tree]
FilesOf(cls, n) ==
    IF cls = "MarkdownParser"
    THEN {[text |-> Join(is), tree |-> NoTree] : is \in SeqUpTo(MdItems, n)}
    ELSE IF cls = "CCppParser"
    THEN {[text |-> Join(is), tree |-> NoTree] : is \in SeqUpTo(CItems, n)}
    ELSE IF cls = "PythonParser"
    THEN {[text |-> Join([k \in 1..Len(is) |-> is[k].src]), tree |-> PyTree(is)] :
             is \in SeqUpTo(PyItems, n)}
    ELSE {}

Files(cls) == FilesOf(cls, MaxItems)

\* the translations dicts a caller can pass: keys from -1..MaxKey
KeySet == -1..MaxKey

TMaps ==
    UNION {[K -> TrTexts] : K \in {K \in SUBSET KeySet : Cardinality(K) <= MaxMapSize}}

EmptyMap == [k \in {} |-> TrOne]

\* the dicts {i: comments[i].text} that hand one comment's own text back
OwnTextMaps(res) ==
    {[k \in {i} |-> res.comments[i + 1].text] : i \in 0..(Len(res.comments) - 1)}

NoOut == [raised |-> FALSE, text |-> << >>]

\* Parser.parse of the parser class cls
ParseOf(cls, text, t, has_ast_comments, fail) ==
    IF cls = "MarkdownParser" THEN MdParse(text)
    ELSE IF cls = "PythonParser" THEN PyParse(text, t, has_ast_comments)
    ELSE CParse(text, fail)

---------------------------------------------------------------------------
(* parser/__init__.py: the registry *)

\* _PARSERS
Registry ==
    [markdown |-> "MarkdownParser", python |-> "PythonParser",
     javascript |-> "JavaScriptParser", typescript |-> "TypeScriptParser",
     c |-> "CCppParser", cpp |-> "CCppParser",
     rust |-> "RustParser", swift |-> "SwiftParser"]

\* repo/clone.py TRANSLATABLE_EXTENSIONS: the tags file classification yields
FileTypeTags == {"markdown", "python", "javascript", "typescript", "c", "cpp",
                 "rust", "swift", "text"}

\* the tags get_parser is called with: the classification's and a foreign one
Tags == FileTypeTags \cup {"java"}

NoCall == [tag |-> "", raised |-> FALSE, error |-> "", cls |-> "none", id |-> 0]

\* an unregistered tag is served by a default parser
GetParserDefault(file_type, made) ==
    [tag |-> file_type, raised |-> FALSE, error |-> "",
     cls |-> IF file_type \in DOMAIN Registry THEN Registry[file_type]
             ELSE "MarkdownParser",
     id |-> Len(made) + 1]

\* get_parser(file_type): the call's outcome, an error or a new parser object
\* of the registered class; made are the parser objects constructed before
GetParser(file_type, made) ==
    IF file_type \notin DOMAIN Registry
    THEN [tag |-> file_type, raised |-> TRUE, error |-> "ValueError",
          cls |-> "none", id |-> 0]
    ELSE [tag |-> file_type, raised |-> FALSE, error |-> "",
          cls |-> Registry[file_type], id |-> Len(made) + 1]

---------------------------------------------------------------------------
(* translator/openai.py: OpenAITranslator *)

\* '---SEPARATOR---'
SEPARATOR ==
    <<"-", "-", "-", "S", "E", "P", "A", "R", "A", "T", "O", "R", "-", "-", "-">>

RECURSIVE SplitOn(_, _)
\* s.split(sep) for a non-empty separator
SplitOn(s, sep) ==
    LET p == Find(s, sep)
    IN  IF p = -1 THEN <<s>>
        ELSE <<Slice(s, 0, p)>> \o SplitOn(SliceFrom(s, p + Len(sep)), sep)

RECURSIVE JoinWith(_, _)
\* sep.join(parts)
JoinWith(parts, sep) ==
    IF parts = << >> THEN << >>
    ELSE IF Len(parts) = 1 THEN parts[1]
    ELSE parts[1] \o sep \o JoinWith(Tail(parts), sep)

\* outcomes of one client.chat.completions.create call: an exception, a
\* message whose content is None, or a message with a content string
Raises == [kind |-> "raise", content |-> << >>]

NoContent == [kind |-> "none", content |-> << >>]

Content(str) == [kind |-> "str", content |-> str]

\* response.choices[0].message.content or default
ContentOr(outcome, default) ==
    IF outcome.kind = "str" /\ outcome.content # << >> THEN outcome.content
    ELSE default

\* _translate_one_by_one: items[k] is the outcome of the call made for texts[k]
TranslateOneByOne(txts, items) ==
    [k \in 1..Len(txts) |->
        IF items[k].kind = "raise" THEN txts[k] ELSE ContentOr(items[k], txts[k])]

\* the path translate_batch takes: "empty", "batch" or "fallback"
BatchPath(txts, outcome) ==
    IF txts = << >> THEN "empty"
    ELSE IF outcome.kind = "raise" THEN "fallback"
    ELSE IF Len(SplitOn(ContentOr(outcome, << >>), SEPARATOR)) # Len(txts)
    THEN "fallback"
    ELSE "batch"

\* the count check is skipped: the split response is returned as it is
TranslateBatchUnchecked(txts, outcome, items) ==
    LET parts == SplitOn(ContentOr(outcome, << >>), SEPARATOR)
    IN  [k \in 1..Len(parts) |-> Strip(parts[k])]

\* translate_batch: outcome is the outcome of the batch call, items those of
\* the per-item calls of the fallback.  Every Exception is caught inside, so
\* the retry decorator never runs the body again.
TranslateBatch(txts, outcome, items) ==
    IF txts = << >> THEN << >>
    ELSE IF outcome.kind = "raise" THEN TranslateOneByOne(txts, items)
    ELSE LET translated == ContentOr(outcome, << >>)
             parts == SplitOn(translated, SEPARATOR)
             stripped == [k \in 1..Len(parts) |-> Strip(parts[k])]
         IN  IF Len(stripped) # Len(txts) THEN TranslateOneByOne(txts, items)
             ELSE stripped

\* the requests one run of translate_batch's body sends to the backend: the
\* create call of the try block, then one create call per text when
\* _translate_one_by_one runs
BatchRequests(txts, outcome) ==
    IF txts = << >> THEN << >>
    ELSE <<"batch">>
         \o (IF BatchPath(txts, outcome) = "fallback"
             THEN [k \in 1..Len(txts) |-> "item"]
             ELSE << >>)

\* the except clause is missing: an exception of the batch call leaves the
\* method
TranslateBatchBodyUncaught(txts, outcome, items) ==
    IF txts # << >> /\ outcome.kind = "raise"
    THEN [raised |-> TRUE, returned |-> << >>, requests |-> <<"batch">>]
    ELSE [raised |-> FALSE, returned |-> TranslateBatch(txts, outcome, items),
          requests |-> BatchRequests(txts, outcome)]

\* one run of the body of translate_batch: whether an exception leaves it,
\* what it returns and the requests it sent.  The except Exception clause
\* turns every failure of the try block into the fallback, whose own calls
\* are each in a try of their own
TranslateBatchBody(txts, outcome, items) ==
    [raised |-> FALSE, returned |-> TranslateBatch(txts, outcome, items),
     requests |-> BatchRequests(txts, outcome)]

\* stop_after_attempt(3)
StopAfterAttempt == 3

RECURSIVE RetryFrom(_, _, _)
\* the retry decorator from attempt n on: attempts[n] holds the backend's
\* outcomes during attempt n; an attempt that raises is followed by the next
\* one until StopAfterAttempt
RetryFrom(txts, attempts, n) ==
    LET a == TranslateBatchBody(txts, attempts[n].outcome, attempts[n].items)
    IN  IF ~a.raised \/ n >= StopAfterAttempt \/ n >= Len(attempts) THEN a
        ELSE LET rest == RetryFrom(txts, attempts, n + 1)
             IN  [rest EXCEPT !.requests = a.requests \o @]

\* a call of the decorated translate_batch
RetryTranslateBatch(txts, attempts) == RetryFrom(txts, attempts, 1)

\* the backend's outcomes during one attempt
Attempt(outcome, items) == [outcome |-> outcome, items |-> items]

\* the outcomes of the attempts after a first attempt that raised: the backend
\* keeps failing, or answers with no content
LaterAttempts(txts, outcome, items) ==
    IF TranslateBatchBody(txts, outcome, items).raised
    THEN [1..(StopAfterAttempt - 1) ->
             {Attempt(Raises, [k \in 1..Len(txts) |-> Raises]),
              Attempt(NoContent, [k \in 1..Len(txts) |-> NoContent])}]
    ELSE {<< >>}

\* the items a backend puts between the separators of a batch answer:
\* 't', '' and ' u\nv ' (padded with blanks)
AnswerParts == {TrOne, << >>, <<" ">> \o TrTwo \o <<" ">>}

\* the outcomes of a batch call for n texts: an exception, no content, an
\* answer of n items, or an answer of n - 1 or n + 1 items 't'
BatchOutcomes(n) ==
    {Raises, NoContent}
    \cup {Content(JoinWith(parts, SEPARATOR)) : parts \in [1..n -> AnswerParts]}
    \cup {Content(JoinWith([j \in 1..k |-> TrOne], SEPARATOR)) :
            k \in {k \in {n - 1, n + 1} : k >= 1}}

\* the outcomes of a per-item call: an exception, no content, '', 't', 'u\nv'
ItemOutcomes == {Raises, NoContent, Content(<< >>)} \cup {Content(t) : t \in TrTexts}

\* the outcomes of the per-item calls translate_batch makes after the batch
\* call's outcome o: one per text on the fallback path, none otherwise
ItemCalls(txts, o) ==
    IF BatchPath(txts, o) = "fallback" THEN [1..Len(txts) -> ItemOutcomes]
    ELSE {<< >>}

\* what translate_batch can return for txts
BatchAnswers(txts) ==
    UNION {{TranslateBatch(txts, o, items) : items \in ItemCalls(txts, o)} :
              o \in BatchOutcomes(Len(txts))}

RECURSIVE AnswersFrom(_, _)
\* what the loop over range(0, len(txts), size) can collect in results
AnswersFrom(txts, size) ==
    IF txts = << >> THEN {<< >>}
    ELSE {h \o t : h \in BatchAnswers(Slice(txts, 0, size)),
                   t \in AnswersFrom(SliceFrom(txts, size), size)}

\* translate_file_comments with the default batch_size
TranslateFileComments(txts) == AnswersFrom(txts, 10)

\* translate_markdown_blocks with the default batch_size
TranslateMarkdownBlocks(txts) == AnswersFrom(txts, 3)

\* the texts of extracted spans handed to the translator: 'a' and ''
TextPool == {<<"a">>, << >>}

\* batch_size: small ones and the defaults 3 and 10
BatchSizes == {1, 2, 3, 10}

TrIdle ==
    /\ texts = << >>
    /\ batch_size = 0
    /\ bi = 0
    /\ results = << >>
    /\ calls = << >>

---------------------------------------------------------------------------
(* config.py: layered configuration *)

\* Python None, and a value that is not None: an Optional is a sequence of at
\* most one element
None == << >>

Val(v) == <<v>>

\* the empty dict
EmptyDict == [k \in {} |-> None]

\* d.get(key, default)
DictGet(d, key, default) == IF key \in DOMAIN d THEN d[key] ELSE default

\* {k: v for k, v in d.items() if v is not None}
WithoutNone(d) == [k \in {j \in DOMAIN d : d[j] # None} |-> d[k]]

DEFAULTS ==
    [provider |-> Val("openai"), target_lang |-> Val("zh"), model |-> None,
     base_url |-> None, api_key |-> None, github_token |-> None,
     push |-> Val(FALSE), dry_run |-> Val(FALSE), batch_size |-> Val(10)]

\* the environment variable read for each setting
EnvNames ==
    [api_key |-> "REPO_TRANSLATE_API_KEY", provider |-> "REPO_TRANSLATE_PROVIDER",
     model |-> "REPO_TRANSLATE_MODEL", base_url |-> "REPO_TRANSLATE_BASE_URL",
     target_lang |-> "REPO_TRANSLATE_LANG",
     github_token |-> "REPO_TRANSLATE_GITHUB_TOKEN"]

\* os.environ.get(name)
EnvironGet(env, name) == IF name \in DOMAIN env THEN Val(env[name]) ELSE None

\* env_config: os.environ.get for each name, the None values filtered out
EnvConfig(env) ==
    WithoutNone([k \in DOMAIN EnvNames |-> EnvironGet(env, EnvNames[k])])

\* a file that does not exist, one that cannot be read or decoded, and a file
\* holding the JSON object data
Missing == [exists |-> FALSE, valid |-> FALSE, data |-> EmptyDict]

Unreadable == [exists |-> TRUE, valid |-> FALSE, data |-> EmptyDict]

JsonFile(data) == [exists |-> TRUE, valid |-> TRUE, data |-> data]

\* _load_json_file
LoadJsonFile(file) ==
    IF ~file.exists THEN EmptyDict
    ELSE IF file.valid THEN file.data
    ELSE EmptyDict

\* result[key] = value for every item of config, a None value included
MergeOneOverwrite(result, cfg) ==
    [k \in DOMAIN result \cup DOMAIN cfg |->
        IF k \in DOMAIN cfg THEN cfg[k] ELSE result[k]]

\* the inner loop of _merge_configs: the items of one config
MergeOne(result, cfg) ==
    LET set == {k \in DOMAIN cfg : cfg[k] # None}
    IN  [k \in DOMAIN result \cup set |->
            IF k \in set THEN cfg[k] ELSE result[k]]

RECURSIVE MergeFrom(_, _)
MergeFrom(result, configs) ==
    IF configs = << >> THEN result
    ELSE MergeFrom(MergeOne(result, Head(configs)), Tail(configs))

\* _merge_configs(*configs)
MergeConfigs(configs) == MergeFrom(EmptyDict, configs)

\* the _source dict of load_config
SourceOf(merged, cli_config, project_config, global_config, env_config) ==
    [k \in DOMAIN merged |->
        IF k \in DOMAIN cli_config THEN "cli"
        ELSE IF k \in DOMAIN project_config THEN "project"
        ELSE IF k \in DOMAIN global_config THEN "global"
        ELSE IF k \in DOMAIN env_config THEN "env"
        ELSE "default"]

\* load_config, given the project config file _find_project_config found
LoadConfig(project, args, global, env) ==
    LET env_config == EnvConfig(env)
        global_config == LoadJsonFile(global)
        project_config == IF project.exists THEN LoadJsonFile(project)
                          ELSE EmptyDict
        cli_config == IF args = None \/ args[1] = EmptyDict THEN EmptyDict
                      ELSE WithoutNone(args[1])
        merged == MergeConfigs(<<DEFAULTS, env_config, global_config,
                                 project_config, cli_config>>)
    IN  [provider |-> DictGet(merged, "provider", DEFAULTS["provider"]),
         target_lang |-> DictGet(merged, "target_lang", DEFAULTS["target_lang"]),
         model |-> DictGet(merged, "model", None),
         base_url |-> DictGet(merged, "base_url", None),
         api_key |-> DictGet(merged, "api_key", None),
         github_token |-> DictGet(merged, "github_token", None),
         push |-> DictGet(merged, "push", DEFAULTS["push"]),
         dry_run |-> DictGet(merged, "dry_run", DEFAULTS["dry_run"]),
         batch_size |-> DictGet(merged, "batch_size", DEFAULTS["batch_size"]),
         _source |-> SourceOf(merged, cli_config, project_config,
                              global_config, env_config)]

\* the value a layer gives to a setting in the inputs of the model: the name
\* of the layer, and for push a bool that differs between neighbouring layers
LayerValue(layer, k) == IF k = "push" THEN Val(layer = "project") ELSE Val(layer)

\* the dicts of a layer over the settings keys: every subset of them, each
\* key with the layer's value or with None (JSON null)
LayerDicts(layer, keys) ==
    UNION {{[k \in S |-> IF k \in N THEN None ELSE LayerValue(layer, k)] :
               N \in SUBSET S} : S \in SUBSET keys}

CliArgs == {None} \cup {Val(d) : d \in LayerDicts("cli", {"provider", "model", "push"})}

ConfigFiles(layer, keys) ==
    {Missing, Unreadable} \cup {JsonFile(d) : d \in LayerDicts(layer, keys)}

Environs ==
    UNION {[S -> {"env"}] : S \in SUBSET {"REPO_TRANSLATE_PROVIDER",
                                         "REPO_TRANSLATE_MODEL"}}

NoConfig == EmptyDict

CfgIdle ==
    /\ cli_args = None
    /\ projectFile = Missing
    /\ globalFile = Missing
    /\ environ = EmptyDict
    /\ config = NoConfig

---------------------------------------------------------------------------
(* auth/store.py: the credential store *)

\* AuthType: the members and their values
AuthTypes == {"API_KEY", "OAUTH"}

\* AuthType.value
AuthTypeValue(t) == IF t = "API_KEY" THEN "api" ELSE "oauth"

\* AuthType(value)
AuthTypeOf(v) == IF v = "api" THEN "API_KEY" ELSE "OAUTH"

\* AuthInfo(type, key=..., ...): every field but type is an Optional
AuthInfo(type, key, base_url, model, refresh_token, access_token, expires_at) ==
    [type |-> type, key |-> key, base_url |-> base_url, model |-> model,
     refresh_token |-> refresh_token, access_token |-> access_token,
     expires_at |-> expires_at]

\* the truth value of an Optional[str]: neither None nor ""
Truthy(o) == o # None /\ o # Val("")

\* the keys of the dict AuthInfo.to_dict builds
DictKeys(info) ==
    {"type"}
    \cup (IF Truthy(info.key) THEN {"key"} ELSE {})
    \cup (IF Truthy(info.base_url) THEN {"base_url"} ELSE {})
    \cup (IF Truthy(info.model) THEN {"model"} ELSE {})
    \cup (IF Truthy(info.refresh_token) THEN {"refresh"} ELSE {})
    \cup (IF Truthy(info.access_token) THEN {"access"} ELSE {})
    \cup (IF info.expires_at # None THEN {"expires"} ELSE {})

\* AuthInfo.to_dict
ToDict(info) ==
    [f \in DictKeys(info) |->
        CASE f = "type" -> AuthTypeValue(info.type)
          [] f = "key" -> info.key[1]
          [] f = "base_url" -> info.base_url[1]
          [] f = "model" -> info.model[1]
          [] f = "refresh" -> info.refresh_token[1]
          [] f = "access" -> info.access_token[1]
          [] f = "expires" -> info.expires_at[1]]

\* data.get(key) of a dict that holds no null
OptGet(data, key) == IF key \in DOMAIN data THEN Val(data[key]) ELSE None

\* AuthInfo.from_dict
FromDict(data) ==
    AuthInfo(AuthTypeOf(data["type"]), OptGet(data, "key"),
             OptGet(data, "base_url"), OptGet(data, "model"),
             OptGet(data, "refresh"), OptGet(data, "access"),
             OptGet(data, "expires"))

\* _load_auth_data: the JSON object of the file, {} when the file is missing
\* or cannot be read or decoded
LoadAuthData(file) ==
    IF ~file.exists THEN EmptyDict
    ELSE IF file.valid THEN file.data
    ELSE EmptyDict

\* _save_auth_data: json.dump writes the dict, json.load reads it back as it was
\* (str keys, str and int values)
SaveAuthData(data) == JsonFile(data)

\* the file is written with the new entry alone
SetEntryAlone(data, provider, info) == [q \in {provider} |-> ToDict(info)]

\* data[provider] = info.to_dict()
SetEntry(data, provider, info) ==
    [q \in DOMAIN data \cup {provider} |->
        IF q = provider THEN ToDict(info) ELSE data[q]]

\* del data[provider]
DelEntry(data, provider) == [q \in DOMAIN data \ {provider} |-> data[q]]

\* get(provider)
AuthGet(file, provider) ==
    LET data == LoadAuthData(file)
    IN  IF provider \in DOMAIN data THEN Val(FromDict(data[provider])) ELSE None

Providers == {"openai", "deepseek"}

\* an API key, OAuth tokens with expires_at 0, an empty key with a model, and
\* a key with an empty base_url
Infos ==
    {AuthInfo("API_KEY", Val("k"), None, None, None, None, None),
     AuthInfo("OAUTH", None, None, None, Val("r"), Val("a"), Val(0)),
     AuthInfo("API_KEY", Val(""), None, Val("m"), None, None, None),
     AuthInfo("API_KEY", Val("k"), Val(""), None, None, None, None)}

AuthIdle ==
    /\ authFile = Missing
    /\ authLog = << >>

---------------------------------------------------------------------------
(* A caller of one parser object: parse, then inject_translations *)

RunIdle ==
    /\ groups = << >>
    /\ gi = 0
    /\ fi = 0
    /\ source = << >>
    /\ commentMap = EmptyMap
    /\ blockMap = EmptyMap
    /\ phaseLog = {}
    /\ written = {}

DispatchIdle ==
    /\ got = NoCall
    /\ objects = << >>

\* a parser object of one of the classes and the content of a file read for it
Init ==
    /\ pc = "new"
    /\ parser \in ParserClasses
    /\ \E f \in Files(parser) :
          /\ content = f.text
          /\ tree = f.tree
    /\ failAt \in IF parser = "CCppParser" THEN -1..MaxFailAt ELSE {-1}
    /\ hasAstComments \in IF parser = "PythonParser" THEN BOOLEAN ELSE {TRUE}
    /\ pr = EmptyResult
    /\ translations = EmptyMap
    /\ out = NoOut
    /\ DispatchIdle
    /\ RunIdle
    /\ TrIdle
    /\ CfgIdle
    /\ AuthIdle

\* parser.parse(content)
Parse ==
    /\ pc = "new"
    /\ pr' = ParseOf(parser, content, tree, hasAstComments, failAt)
    /\ pc' = "parsed"
    /\ UNCHANGED <<parser, content, tree, translations, out, hasAstComments,
                   failAt, got, objects>>
    /\ UNCHANGED runVars
    /\ UNCHANGED trVars
    /\ UNCHANGED cfgVars
    /\ UNCHANGED authVars

\* parser.inject_translations(content, T, parse_result)
Inject ==
    /\ pc = "parsed"
    /\ \E T \in TMaps \cup OwnTextMaps(pr) :
          /\ translations' = T
          /\ out' = InjectTranslations(parser, content, T, pr)
    /\ pc' = "injected"
    /\ UNCHANGED <<parser, content, tree, pr, hasAstComments, failAt, got,
                   objects>>
    /\ UNCHANGED runVars
    /\ UNCHANGED trVars
    /\ UNCHANGED cfgVars
    /\ UNCHANGED authVars

Next ==
    \/ Parse
    \/ Inject

Spec == Init /\ [][Next]_vars

---------------------------------------------------------------------------
(* Callers of get_parser *)

InitDispatch ==
    /\ pc = "dispatch"
    /\ parser = "none"
    /\ content = << >>
    /\ tree = NoTree
    /\ failAt = -1
    /\ hasAstComments = TRUE
    /\ pr = EmptyResult
    /\ translations = EmptyMap
    /\ out = NoOut
    /\ DispatchIdle
    /\ RunIdle
    /\ TrIdle
    /\ CfgIdle
    /\ AuthIdle

\* get_parser(tag)
CallGetParser(tag) ==
    /\ pc = "dispatch"
    /\ Len(objects) < MaxCalls
    /\ got' = GetParser(tag, objects)
    /\ objects' = IF got'.raised THEN objects
                  ELSE Append(objects, [cls |-> got'.cls, id |-> got'.id])
    /\ UNCHANGED <<parser, pc, hasAstComments>>
    /\ UNCHANGED apiVars
    /\ UNCHANGED runVars
    /\ UNCHANGED trVars
    /\ UNCHANGED cfgVars
    /\ UNCHANGED authVars

NextDispatch == \E tag \in Tags : CallGetParser(tag)

SpecDispatch == InitDispatch /\ [][NextDispatch]_vars

---------------------------------------------------------------------------
(* cli.py translate: the loop over file_groups, and repo/clone.py *)

\* the file types of the files of a repository scan
RunTypes == {"markdown", "python", "c", "text"}

RECURSIVE FilterFrom(_, _, _)
\* filter_translatable_files: files grouped by type, groups in the order in
\* which their first file appears; a file is named by its position in the scan
FilterFrom(types, i, result) ==
    IF i > Len(types) THEN result
    ELSE LET at == {g \in 1..Len(result) : result[g].type = types[i]}
         IN  FilterFrom(types, i + 1,
                IF at = {}
                THEN Append(result, [type |-> types[i], files |-> <<i>>])
                ELSE [result EXCEPT ![Min(at)].files = Append(@, i)])

FilterTranslatableFiles(types) == FilterFrom(types, 1, << >>)

\* dict(zip(keys, translated)) for the ascending keys
ZipMap(keys, translated) ==
    [k \in keys |-> translated[Cardinality({j \in keys : j <= k})]]

\* list(d.values()) of a dict built in ascending key order
Values(keys, list) ==
    LET ordered == SortedDesc(keys)
        n == Len(ordered)
    IN  [k \in 1..n |-> list[ordered[n + 1 - k] + 1].text]

InitRun ==
    /\ pc = "group"
    /\ \E types \in SeqUpTo(RunTypes, MaxFiles) :
          groups = FilterTranslatableFiles(types)
    /\ gi = 1
    /\ fi = 0
    /\ parser = "none"
    /\ content = << >>
    /\ source = << >>
    /\ tree = NoTree
    /\ failAt = -1
    /\ hasAstComments \in BOOLEAN
    /\ pr = EmptyResult
    /\ translations = EmptyMap
    /\ out = NoOut
    /\ commentMap = EmptyMap
    /\ blockMap = EmptyMap
    /\ phaseLog = {}
    /\ written = {}
    /\ DispatchIdle
    /\ TrIdle
    /\ CfgIdle
    /\ AuthIdle

\* for file_type, files in file_groups.items(): parser = get_parser(file_type)
EnterGroup ==
    /\ pc = "group"
    /\ gi <= Len(groups)
    /\ got' = GetParser(groups[gi].type, objects)
    /\ IF got'.raised
       THEN /\ pc' = "aborted"
            /\ UNCHANGED <<parser, objects, fi>>
       ELSE /\ pc' = "file"
            /\ parser' = got'.cls
            /\ objects' = Append(objects, [cls |-> got'.cls, id |-> got'.id])
            /\ fi' = 1
    /\ UNCHANGED <<content, tree, pr, translations, out, hasAstComments, failAt,
                   groups, gi, source, commentMap, blockMap, phaseLog, written>>
    /\ UNCHANGED trVars
    /\ UNCHANGED cfgVars
    /\ UNCHANGED authVars

\* the loop over file_groups is exhausted
Finish ==
    /\ pc = "group"
    /\ gi > Len(groups)
    /\ pc' = "done"
    /\ UNCHANGED <<parser, content, tree, pr, translations, out, hasAstComments,
                   failAt, got, objects>>
    /\ UNCHANGED runVars
    /\ UNCHANGED trVars
    /\ UNCHANGED cfgVars
    /\ UNCHANGED authVars

\* the loop over the files of the group is exhausted
LeaveGroup ==
    /\ pc = "file"
    /\ fi > Len(groups[gi].files)
    /\ gi' = gi + 1
    /\ pc' = "group"
    /\ UNCHANGED <<parser, content, tree, pr, translations, out, hasAstComments,
                   failAt, got, objects, groups, fi, source, commentMap,
                   blockMap, phaseLog, written>>
    /\ UNCHANGED trVars
    /\ UNCHANGED cfgVars
    /\ UNCHANGED authVars

\* content = parser.read_file(target_file); parse_result = parser.parse(content)
ReadAndParse ==
    /\ pc = "file"
    /\ fi <= Len(groups[gi].files)
    /\ \E f \in FilesOf(parser, MaxRunItems) :
       \E fail \in IF parser = "CCppParser" THEN -1..MaxFailAt ELSE {-1} :
          /\ content' = f.text
          /\ source' = f.text
          /\ tree' = f.tree
          /\ failAt' = fail
          /\ pr' = ParseOf(parser, f.text, f.tree, hasAstComments, fail)
    /\ commentMap' = EmptyMap
    /\ blockMap' = EmptyMap
    /\ phaseLog' = {}
    /\ pc' = "comments"
    /\ UNCHANGED <<parser, translations, out, hasAstComments, got, objects,
                   groups, gi, fi, written>>
    /\ UNCHANGED trVars
    /\ UNCHANGED cfgVars
    /\ UNCHANGED authVars

\* if comments_to_translate: translate them and inject comment_map
CommentPhase ==
    /\ pc = "comments"
    /\ LET keys == {k \in 0..(Len(pr.comments) - 1) : TRUE}
       IN  IF keys = {}
           THEN /\ pc' = "blocks"
                /\ UNCHANGED <<content, commentMap, phaseLog>>
           ELSE \E translated \in TranslateFileComments(Values(keys, pr.comments)) :
                   LET map == ZipMap(keys, translated)
                       res == InjectTranslations(parser, content, map, pr)
                   IN  /\ commentMap' = map
                       /\ phaseLog' = phaseLog \cup
                             {[phase |-> "comments", list |-> SpanListName(parser)]}
                       /\ content' = res.text
                       /\ pc' = IF res.raised THEN "aborted" ELSE "blocks"
    /\ UNCHANGED <<parser, tree, pr, translations, out, hasAstComments, failAt,
                   got, objects, groups, gi, fi, source, blockMap, written>>
    /\ UNCHANGED trVars
    /\ UNCHANGED cfgVars
    /\ UNCHANGED authVars

\* if blocks_to_translate: translate them and inject block_map
BlockPhase ==
    /\ pc = "blocks"
    /\ LET keys == {k \in 0..(Len(pr.text_blocks) - 1) :
                       ~pr.text_blocks[k + 1].is_code}
       IN  IF keys = {}
           THEN /\ pc' = "write"
                /\ UNCHANGED <<content, blockMap, phaseLog>>
           ELSE \E translated \in TranslateMarkdownBlocks(Values(keys, pr.text_blocks)) :
                   LET map == ZipMap(keys, translated)
                       res == InjectTranslations(parser, content, map, pr)
                   IN  /\ blockMap' = map
                       /\ phaseLog' = phaseLog \cup
                             {[phase |-> "text_blocks", list |-> SpanListName(parser)]}
                       /\ content' = res.text
                       /\ pc' = IF res.raised THEN "aborted" ELSE "write"
    /\ UNCHANGED <<parser, tree, pr, translations, out, hasAstComments, failAt,
                   got, objects, groups, gi, fi, source, commentMap, written>>
    /\ UNCHANGED trVars
    /\ UNCHANGED cfgVars
    /\ UNCHANGED authVars

\* parser.write_file(target_file, content); the locals of the iteration are dead
WriteFile ==
    /\ pc = "write"
    /\ written' = written \cup {groups[gi].files[fi]}
    /\ fi' = fi + 1
    /\ pc' = "file"
    /\ content' = << >>
    /\ source' = << >>
    /\ tree' = NoTree
    /\ failAt' = -1
    /\ pr' = EmptyResult
    /\ commentMap' = EmptyMap
    /\ blockMap' = EmptyMap
    /\ phaseLog' = {}
    /\ UNCHANGED <<parser, translations, out, hasAstComments, got, objects,
                   groups, gi>>
    /\ UNCHANGED trVars
    /\ UNCHANGED cfgVars
    /\ UNCHANGED authVars

NextRun ==
    \/ EnterGroup
    \/ Finish
    \/ LeaveGroup
    \/ ReadAndParse
    \/ CommentPhase
    \/ BlockPhase
    \/ WriteFile

SpecRun == InitRun /\ [][NextRun]_vars

---------------------------------------------------------------------------
(* A call of translate_file_comments / translate_markdown_blocks *)

InitTranslate ==
    /\ pc = "translate"
    /\ texts \in SeqUpTo(TextPool, MaxTexts)
    /\ batch_size \in BatchSizes
    /\ bi = 0
    /\ results = << >>
    /\ calls = << >>
    /\ parser = "none"
    /\ content = << >>
    /\ tree = NoTree
    /\ failAt = -1
    /\ hasAstComments = TRUE
    /\ pr = EmptyResult
    /\ translations = EmptyMap
    /\ out = NoOut
    /\ DispatchIdle
    /\ RunIdle
    /\ CfgIdle
    /\ AuthIdle

\* one iteration of for i in range(0, len(texts), batch_size):
\* batch = texts[i : i + batch_size]; results.extend(self.translate_batch(batch))
LoopTranslateBatch ==
    /\ pc = "translate"
    /\ bi < Len(texts)
    /\ LET batch == Slice(texts, bi, bi + batch_size)
       IN  \E o \in BatchOutcomes(Len(batch)) :
           \E items \in ItemCalls(batch, o) :
           \E later \in LaterAttempts(batch, o, items) :
              LET call == RetryTranslateBatch(batch, <<Attempt(o, items)>> \o later)
              IN  /\ results' = IF call.raised THEN results
                                ELSE results \o call.returned
                  /\ pc' = IF call.raised THEN "raised" ELSE pc
                  /\ calls' = Append(calls, [batch |-> batch,
                                             path |-> BatchPath(batch, o),
                                             failed |-> o.kind = "raise",
                                             raised |-> call.raised,
                                             requests |-> call.requests,
                                             returned |-> call.returned])
    /\ bi' = bi + batch_size
    /\ UNCHANGED <<texts, batch_size, parser, hasAstComments, got, objects>>
    /\ UNCHANGED apiVars
    /\ UNCHANGED runVars
    /\ UNCHANGED cfgVars
    /\ UNCHANGED authVars

\* the range is exhausted: return results
ReturnResults ==
    /\ pc = "translate"
    /\ bi >= Len(texts)
    /\ pc' = "translated"
    /\ UNCHANGED <<parser, hasAstComments, got, objects>>
    /\ UNCHANGED apiVars
    /\ UNCHANGED runVars
    /\ UNCHANGED trVars
    /\ UNCHANGED cfgVars
    /\ UNCHANGED authVars

NextTranslate ==
    \/ LoopTranslateBatch
    \/ ReturnResults

SpecTranslate == InitTranslate /\ [][NextTranslate]_vars

---------------------------------------------------------------------------
(* A call of load_config *)

InitConfig ==
    /\ pc = "config"
    /\ cli_args \in CliArgs
    /\ projectFile \in ConfigFiles("project", {"model", "push"})
    /\ globalFile \in ConfigFiles("global", {"provider", "model"})
    /\ environ \in Environs
    /\ config = NoConfig
    /\ parser = "none"
    /\ content = << >>
    /\ tree = NoTree
    /\ failAt = -1
    /\ hasAstComments = TRUE
    /\ pr = EmptyResult
    /\ translations = EmptyMap
    /\ out = NoOut
    /\ DispatchIdle
    /\ RunIdle
    /\ TrIdle
    /\ AuthIdle

\* config = load_config(project_dir, cli_args)
CallLoadConfig ==
    /\ pc = "config"
    /\ config' = LoadConfig(projectFile, cli_args, globalFile, environ)
    /\ pc' = "configured"
    /\ UNCHANGED <<cli_args, projectFile, globalFile, environ>>
    /\ UNCHANGED authVars
    /\ UNCHANGED <<parser, hasAstComments, got, objects>>
    /\ UNCHANGED apiVars
    /\ UNCHANGED runVars
    /\ UNCHANGED trVars

NextConfig == CallLoadConfig

SpecConfig == InitConfig /\ [][NextConfig]_vars

---------------------------------------------------------------------------
(* Callers of the credential store *)

InitAuth ==
    /\ pc = "auth"
    /\ authFile \in {Missing, Unreadable}
    /\ authLog = << >>
    /\ parser = "none"
    /\ content = << >>
    /\ tree = NoTree
    /\ failAt = -1
    /\ hasAstComments = TRUE
    /\ pr = EmptyResult
    /\ translations = EmptyMap
    /\ out = NoOut
    /\ DispatchIdle
    /\ RunIdle
    /\ TrIdle
    /\ CfgIdle

\* a call of the store: what it was given, what it returned, and the data of
\* the file before and after it
AuthCall(op, provider, info, returned, before, after) ==
    [op |-> op, provider |-> provider, info |-> info, returned |-> returned,
     before |-> before, after |-> after]

AuthUnchanged ==
    /\ UNCHANGED <<parser, pc, hasAstComments, got, objects>>
    /\ UNCHANGED apiVars
    /\ UNCHANGED runVars
    /\ UNCHANGED trVars
    /\ UNCHANGED cfgVars

\* set_auth(provider, info)
SetAuth(provider, info) ==
    /\ pc = "auth"
    /\ Len(authLog) < MaxAuthCalls
    /\ LET data == LoadAuthData(authFile)
           new == SetEntry(data, provider, info)
       IN  /\ authFile' = SaveAuthData(new)
           /\ authLog' = Append(authLog,
                 AuthCall("set_auth", provider, Val(info), None, data, new))
    /\ AuthUnchanged

\* remove(provider)
Remove(provider) ==
    /\ pc = "auth"
    /\ Len(authLog) < MaxAuthCalls
    /\ LET data == LoadAuthData(authFile)
       IN  IF provider \in DOMAIN data
           THEN /\ authFile' = SaveAuthData(DelEntry(data, provider))
                /\ authLog' = Append(authLog,
                      AuthCall("remove", provider, None, TRUE, data,
                               DelEntry(data, provider)))
           ELSE /\ authFile' = authFile
                /\ authLog' = Append(authLog,
                      AuthCall("remove", provider, None, FALSE, data, data))
    /\ AuthUnchanged

\* get(provider)
Get(provider) ==
    /\ pc = "auth"
    /\ Len(authLog) < MaxAuthCalls
    /\ LET data == LoadAuthData(authFile)
       IN  authLog' = Append(authLog,
               AuthCall("get", provider, None, AuthGet(authFile, provider),
                        data, data))
    /\ authFile' = authFile
    /\ AuthUnchanged

NextAuth ==
    \/ \E p \in Providers, info \in Infos : SetAuth(p, info)
    \/ \E p \in Providers : Remove(p)
    \/ \E p \in Providers : Get(p)

SpecAuth == InitAuth /\ [][NextAuth]_vars

---------------------------------------------------------------------------
(* Properties of parse and inject_translations *)

Restrict(T, K) == [k \in K |-> T[k]]

\* every key of T is a valid index of a list of length n
ValidKeys(T, n) == \A k \in DOMAIN T : 0 <= k /\ k < n

Injected == pc = "injected"

\* 0-based offset in text of column col of the 1-based line
OffsetOf(text, line, col) ==
    LET nls == {k \in 1..Len(text) : text[k] = NL}
    IN  IF line = 1 THEN col
        ELSE (CHOOSE k \in nls : Cardinality({j \in nls : j <= k}) = line - 1) + col

\* C1: round-trip identity: with an empty translations dict,
\* inject_translations(content, {}, parse(content)) returns content itself,
\* for the Markdown, the Python and the C/C++ parser.
C1_RoundTripIdentity ==
    (Injected /\ translations = EmptyMap) =>
        (~out.raised /\ out.text = content)

\* a file with a final newline and extracted spans went through the round trip
C1_Witness ==
    /\ Injected
    /\ translations = EmptyMap
    /\ Len(content) > 1
    /\ content[Len(content)] = NL
    /\ SpanList(parser, pr) # << >>
    /\ out.text = content

\* the spans a dict with valid keys targets, in source order of their extents
RECURSIVE ByOffset(_, _)
ByOffset(text, cs) ==
    IF cs = {} THEN << >>
    ELSE LET c == CHOOSE c \in cs : \A d \in cs :
                    OffsetOf(text, c.line_start, c.column_start)
                    <= OffsetOf(text, d.line_start, d.column_start)
         IN  <<c>> \o ByOffset(text, cs \ {c})

\* the pieces of text outside the extents of the spans cs (sorted by offset)
RECURSIVE Outside(_, _, _)
Outside(text, from, cs) ==
    IF cs = << >> THEN <<SliceFrom(text, from)>>
    ELSE <<Slice(text, from,
                 OffsetOf(text, cs[1].line_start, cs[1].column_start))>>
         \o Outside(text, OffsetOf(text, cs[1].line_end, cs[1].column_end),
                    Tail(cs))

\* result holds the pieces segs in order from offset pos, the last one at its end
RECURSIVE HoldsInOrder(_, _, _)
HoldsInOrder(result, pos, segs) ==
    IF Len(segs) = 1
    THEN /\ Len(result) - Len(segs[1]) >= pos
         /\ MatchAt(result, segs[1], Len(result) - Len(segs[1]))
    ELSE LET p == FindFrom(result, segs[1], pos)
         IN  /\ p # -1
             /\ HoldsInOrder(result, p + Len(segs[1]), Tail(segs))

\* the parse recorded the columns of its spans (all but _parse_standard)
HasColumns == parser = "CCppParser" \/ (parser = "PythonParser" /\ hasAstComments)

\* C2: code outside the translated spans is preserved: after the Python or
\* C/C++ injector applied translations at valid indices, the output begins with
\* the text before the first targeted span, ends with the text after the last
\* one, and holds the text between targeted spans unchanged and in order.
C2_OutsidePreserved ==
    (/\ Injected
     /\ HasColumns
     /\ translations # EmptyMap
     /\ ValidKeys(translations, Len(pr.comments))) =>
        LET cs == ByOffset(content, {pr.comments[k + 1] : k \in DOMAIN translations})
            segs == Outside(content, 0, cs)
        IN  /\ ~out.raised
            /\ StartsWith(out.text, segs[1])
            /\ HoldsInOrder(out.text, Len(segs[1]), segs)

\* the fenced regions of a document: [first, last] line numbers, the opening
\* fence line through the closing fence line (or the end of an unclosed one)
RECURSIVE FencedFrom(_, _, _)
FencedFrom(lines, i, open) ==
    IF i > Len(lines)
    THEN (IF open = 0 THEN << >> ELSE <<[first |-> open, last |-> Len(lines)]>>)
    ELSE IF FenceMatch(lines[i])
    THEN (IF open = 0 THEN FencedFrom(lines, i + 1, i)
          ELSE <<[first |-> open, last |-> i]>> \o FencedFrom(lines, i + 1, 0))
    ELSE FencedFrom(lines, i + 1, open)

FencedRegions(lines) == FencedFrom(lines, 1, 0)

\* the line sequences rs occur in lines, whole, in order, from line from on
RECURSIVE RegionsInOrder(_, _, _)
RegionsInOrder(lines, from, rs) ==
    IF rs = << >> THEN TRUE
    ELSE \E p \in from..(Len(lines) - Len(rs[1]) + 1) :
            /\ SubSeq(lines, p, p + Len(rs[1]) - 1) = rs[1]
            /\ \A q \in from..(p - 1) :
                  SubSeq(lines, q, q + Len(rs[1]) - 1) # rs[1]
            /\ RegionsInOrder(lines, p + Len(rs[1]), Tail(rs))

\* C3: markdown fence exclusion on injection: whatever translations dict keyed
\* by text_block indices (indices of code blocks and stale ones included) is
\* injected, every fenced code block of the input (opening fence, content
\* lines, closing fence) is found unchanged, in order, in the output.
C3_FencedBlocksKept ==
    (/\ Injected
     /\ parser = "MarkdownParser"
     /\ \A k \in DOMAIN translations : k >= 0) =>
        LET lines == Split(content)
            regions == FencedRegions(lines)
        IN  /\ ~out.raised
            /\ RegionsInOrder(Split(out.text), 1,
                  [k \in 1..Len(regions) |->
                      SubSeq(lines, regions[k].first, regions[k].last)])

\* a prose block above a fenced block grew by a line, and the code block's
\* own index was in the dict
C3_Witness ==
    /\ Injected
    /\ parser = "MarkdownParser"
    /\ \A k \in DOMAIN translations : k >= 0
    /\ \E k \in DOMAIN translations :
          /\ k < Len(pr.text_blocks)
          /\ pr.text_blocks[k + 1].is_code
    /\ \E k \in DOMAIN translations :
          /\ k < Len(pr.text_blocks)
          /\ ~pr.text_blocks[k + 1].is_code
          /\ translations[k] = TrTwo
          /\ pr.text_blocks[k + 1].line_end < Len(Split(content))
    /\ Len(Split(out.text)) > Len(Split(content))

RECURSIVE KeysBottomUp(_, _)
\* the keys of a dict ordered by the line_start of their spans, lowest span first
KeysBottomUp(K, list) ==
    IF K = {} THEN << >>
    ELSE LET k == CHOOSE k \in K : \A j \in K :
                    list[k + 1].line_start >= list[j + 1].line_start
         IN  <<k>> \o KeysBottomUp(K \ {k}, list)

\* the targeted spans have pairwise disjoint line ranges
DisjointRanges(K, list) ==
    \A j, k \in K : j # k =>
        \/ list[j + 1].line_end < list[k + 1].line_start
        \/ list[k + 1].line_end < list[j + 1].line_start

\* each targeted span's own line range replaced, the lowest range first, so
\* that every replacement sees the line numbers of the parsed snapshot
ReplacedIndependently(cls, text, T, res) ==
    LET st == InjectLoop(cls, Lines(Split(text)),
                         KeysBottomUp(DOMAIN T, SpanList(cls, res)), T, res)
    IN  IF st.raised THEN [raised |-> TRUE, text |-> << >>]
        ELSE [raised |-> FALSE, text |-> Join(st.lines)]

\* C5: index stability under descending application: for a translations dict
\* over valid indices of spans on distinct lines, inject_translations yields
\* the content obtained by replacing each targeted span's original line range
\* independently.
C5_IndexStability ==
    (/\ Injected
     /\ ValidKeys(translations, Len(SpanList(parser, pr)))
     /\ DisjointRanges(DOMAIN translations, SpanList(parser, pr))) =>
        out = ReplacedIndependently(parser, content, translations, pr)

\* C7: stale indices are ignored: keys >= the length of the addressed list are
\* skipped without raising, and the outcome is that of the dict restricted to
\* the keys below the list length.
C7_StaleIgnored ==
    Injected =>
        LET n == Len(SpanList(parser, pr))
        IN  out = InjectTranslations(parser, content,
                     Restrict(translations, {k \in DOMAIN translations : k < n}),
                     pr)

\* a dict with a stale key and a valid one rewrote the file
C7_Witness ==
    /\ Injected
    /\ \E k \in DOMAIN translations : k >= Len(SpanList(parser, pr))
    /\ \E k \in DOMAIN translations : 0 <= k /\ k < Len(SpanList(parser, pr))
    /\ ~out.raised
    /\ out.text # content

\* C8: dispatch fails explicitly on an unsupported tag: every get_parser call
\* with a tag outside the registry raises ValueError and yields no parser
\* object, and every call with a registered tag yields an object of that tag's
\* parser class that no earlier call had returned.
C8_Dispatch ==
    [][\A tag \in Tags : CallGetParser(tag) =>
          IF tag \in DOMAIN Registry
          THEN /\ ~got'.raised
               /\ got'.cls = Registry[tag]
               /\ \A k \in 1..Len(objects) : objects[k].id # got'.id
               /\ objects' = Append(objects, [cls |-> got'.cls, id |-> got'.id])
          ELSE /\ got'.raised
               /\ got'.error = "ValueError"
               /\ got'.cls = "none"
               /\ got'.id = 0
               /\ objects' = objects]_vars

\* a call for the tag "text" raised after earlier calls had yielded parsers
C8_Witness ==
    /\ got.tag = "text"
    /\ got.raised
    /\ Len(objects) >= 2

\* C10: C/C++ extraction is fail-closed: when an exception is raised in the
\* try block of CCppParser.parse, the result has no comments and no text
\* blocks, also when comments had been appended before the exception.
C10_FailClosed ==
    (pc \in {"parsed", "injected"} /\ parser = "CCppParser" /\ failAt # -1) =>
        (pr.comments = << >> /\ pr.text_blocks = << >>)

---------------------------------------------------------------------------
(* Properties of the translate command *)

\* C4: an index addresses the list chosen by the caller's phase: the inject
\* call of the comment phase indexes comments with its keys and the call of
\* the block phase indexes text_blocks; in a markdown file with an HTML
\* comment, the comment phase does not put the translation of comments[0]
\* in the place of the lines of text_blocks[0].
C4_PhaseAddressesOwnList ==
    /\ \A e \in phaseLog : e.list = e.phase
    /\ (/\ pc = "blocks"
        /\ parser = "MarkdownParser"
        /\ 0 \in DOMAIN commentMap
        /\ pr.text_blocks # << >>) =>
          LET block == pr.text_blocks[1]
              new == Split(commentMap[0])
          IN  ~ /\ ~block.is_code
                /\ new # SubSeq(Split(source), block.line_start, block.line_end)
                /\ Slice(Split(content), block.line_start - 1,
                         block.line_start - 1 + Len(new)) = new

\* C6: the comment pass and the text-block pass commute: for a file with
\* comments and non-code text blocks, the content written (comment injection,
\* then block injection on its output) equals the content obtained by
\* injecting the blocks first and the comments second.
C6_PassesCommute ==
    (pc = "write" /\ commentMap # EmptyMap /\ blockMap # EmptyMap) =>
        LET first == InjectTranslations(parser, source, blockMap, pr)
            second == InjectTranslations(parser, first.text, commentMap, pr)
        IN  ~first.raised /\ ~second.raised /\ content = second.text

\* the files of the groups whose tag has a registered parser
SupportedFiles ==
    UNION {{groups[g].files[k] : k \in 1..Len(groups[g].files)} :
              g \in {g \in 1..Len(groups) : groups[g].type \in DOMAIN Registry}}

\* C9: an unsupported file type is a per-file skip, not a process abort: when
\* file_groups has a group whose tag has no registered parser, the run ends
\* normally and has written every file of every supported group.
C9_UnsupportedIsSkipped ==
    (/\ pc \in {"done", "aborted"}
     /\ \E g \in 1..Len(groups) : groups[g].type \notin DOMAIN Registry) =>
        (pc = "done" /\ written = SupportedFiles)

---------------------------------------------------------------------------
(* Properties of extraction *)

Parsed == pc \in {"parsed", "injected"}

\* C11: Python extraction is fail-closed on unparseable syntax: when building
\* the tree raises SyntaxError, PythonParser.parse returns a ParseResult with
\* no comments and no text blocks and raises nothing, with ast_comments and
\* with the standard ast module.
C11_PyFailClosed ==
    (Parsed /\ parser = "PythonParser" /\ tree.bad) =>
        (pr.comments = << >> /\ pr.text_blocks = << >>)

\* a file with a docstring above an unparseable statement was parsed by the
\* standard-ast fallback
C11_Witness ==
    /\ Parsed
    /\ parser = "PythonParser"
    /\ ~hasAstComments
    /\ tree.bad
    /\ HasDocstring(tree.root)
    /\ pr = EmptyResult

\* C12: comment ordering: for every parser and extraction path, the comments
\* of the returned ParseResult are sorted ascending by line_start.
C12_SortedByLineStart ==
    Parsed =>
        \A i, j \in 1..Len(pr.comments) :
            i < j => pr.comments[i].line_start <= pr.comments[j].line_start

\* C15: re-wrapping is lossless: for every parser, content and extracted
\* comment at index i, injecting the comment's own cleaned text
\* ({i: comments[i].text}) returns the content unchanged.
C15_RewrapLossless ==
    (/\ Injected
     /\ translations \in OwnTextMaps(pr)) =>
        (~out.raised /\ out.text = content)

\* the dict {k: T[k]}
Only(T, k) == [j \in {k} |-> T[k]]

\* the change of the line count made by injecting {k: T[k]} alone
Growth(cls, text, T, res, k) ==
    Len(Split(InjectTranslations(cls, text, Only(T, k), res).text))
    - Len(Split(text))

RECURSIVE SumGrowth(_, _, _, _, _)
SumGrowth(cls, text, T, res, K) ==
    IF K = {} THEN 0
    ELSE LET k == CHOOSE k \in K : TRUE
         IN  Growth(cls, text, T, res, k) + SumGrowth(cls, text, T, res, K \ {k})

\* 0-based line of the output at which the span of key k begins, when the
\* keys below k address spans above it
ShiftedStart(cls, text, T, res, k) ==
    SpanList(cls, res)[k + 1].line_start - 1
    + SumGrowth(cls, text, T, res, {j \in DOMAIN T : j < k})

\* comment c is a /// doc comment
IsLineDoc(c) == c.type = DOC_COMMENT /\ StartsWith(c.original, <<"/", "/", "/">>)

\* the C injector was given valid keys of comments on pairwise distinct lines
CInjectedApart ==
    /\ Injected
    /\ parser = "CCppParser"
    /\ ValidKeys(translations, Len(pr.comments))
    /\ DisjointRanges(DOMAIN translations, pr.comments)

\* C16: style preservation for line doc comments: a /// doc comment translated
\* to a string of k lines is replaced by exactly k lines, each the original
\* indentation followed by '/// ' and the translated line, in the place of the
\* span's original line range.
C16_LineDocStyle ==
    CInjectedApart =>
        \A k \in DOMAIN translations :
            IsLineDoc(pr.comments[k + 1]) =>
                LET c == pr.comments[k + 1]
                    src == Split(content)
                    indent == LeadingIndent(src[c.line_start])
                    tl == Split(translations[k])
                    new == [j \in 1..Len(tl) |->
                               indent \o <<"/", "/", "/", " ">> \o tl[j]]
                    at == ShiftedStart(parser, content, translations, pr, k)
                    got_lines == Split(out.text)
                IN  /\ ~out.raised
                    /\ Slice(got_lines, at, at + Len(tl)) = new
                    /\ Growth(parser, content, translations, pr, k)
                          = Len(tl) - (c.line_end - c.line_start + 1)
                    /\ DOMAIN translations = {k} =>
                          got_lines = SubSeq(src, 1, c.line_start - 1) \o new
                                      \o SubSeq(src, c.line_end + 1, Len(src))

\* an indented /// comment below another comment was translated to two lines,
\* the comment above it having grown as well
C16_Witness ==
    /\ CInjectedApart
    /\ \E k \in DOMAIN translations :
          /\ IsLineDoc(pr.comments[k + 1])
          /\ translations[k] = TrTwo
          /\ LeadingIndent(Split(content)[pr.comments[k + 1].line_start]) # << >>
          /\ \E j \in DOMAIN translations :
                j < k /\ Growth(parser, content, translations, pr, j) > 0
    /\ ~out.raised

\* comment c is a /** (or /*!) doc comment
IsBlockDoc(c) == c.type = DOC_COMMENT /\ ~StartsWith(c.original, <<"/", "/", "/">>)

\* C17: style preservation for block doc comments: a single-line /** ... */
\* doc comment translated to a string of n >= 2 lines is replaced by n + 2
\* lines: '<indent>/**', the n lines '<indent> * <line>' in order, and
\* '<indent> */', with the leading whitespace of the original line as indent.
C17_BlockDocStyle ==
    CInjectedApart =>
        \A k \in DOMAIN translations :
            LET c == pr.comments[k + 1]
                src == Split(content)
                tl == Split(translations[k])
                n == Len(tl)
            IN  (/\ IsBlockDoc(c)
                 /\ StartsWith(c.original, <<"/", "*", "*">>)
                 /\ c.line_start = c.line_end
                 /\ n >= 2) =>
                    LET indent == LeadingIndent(src[c.line_start])
                        new == <<indent \o <<"/", "*", "*">>>>
                               \o [j \in 1..n |-> indent \o <<" ", "*", " ">> \o tl[j]]
                               \o <<indent \o <<" ", "*", "/">>>>
                        at == ShiftedStart(parser, content, translations, pr, k)
                        got_lines == Split(out.text)
                    IN  /\ ~out.raised
                        /\ Len(new) = n + 2
                        /\ Slice(got_lines, at, at + n + 2) = new
                        /\ Growth(parser, content, translations, pr, k) = n + 1
                        /\ DOMAIN translations = {k} =>
                              got_lines = SubSeq(src, 1, c.line_start - 1) \o new
                                          \o SubSeq(src, c.line_end + 1, Len(src))

\* an indented one-line /** comment was translated to two lines, with code
\* below it
C17_Witness ==
    /\ CInjectedApart
    /\ \E k \in DOMAIN translations :
          LET c == pr.comments[k + 1]
          IN  /\ IsBlockDoc(c)
              /\ c.line_start = c.line_end
              /\ translations[k] = TrTwo
              /\ LeadingIndent(Split(content)[c.line_start]) # << >>
              /\ c.line_end < Len(Split(content))
    /\ Len(Split(out.text)) >= Len(Split(content)) + 3

\* the comment the C injector regenerates for a block comment: the one-line
\* form for a one-line translation, the block form otherwise
Regenerated(c, indent, translated) ==
    LET tl == Split(translated)
        open == IF c.type = DOC_COMMENT THEN <<"/", "*", "*">> ELSE <<"/", "*">>
        cont == IF c.type = DOC_COMMENT THEN <<" ", "*", " ">> ELSE <<" ", " ", " ">>
    IN  IF Len(tl) = 1
        THEN <<indent \o open \o <<" ">> \o translated \o <<" ", "*", "/">>>>
        ELSE <<indent \o open>>
             \o [j \in 1..Len(tl) |-> indent \o cont \o tl[j]]
             \o <<indent \o <<" ", "*", "/">>>>

\* C18: block and doc comment injection replaces the entire original range:
\* for a MULTI_LINE or /** DOC_COMMENT span with line_end > line_start, after
\* injecting a translation of any line count (a one-line one included) the
\* span's range holds only the regenerated comment and none of the original
\* lines line_start..line_end.
C18_WholeRangeReplaced ==
    CInjectedApart =>
        \A k \in DOMAIN translations :
            LET c == pr.comments[k + 1]
                src == Split(content)
            IN  (/\ (c.type = MULTI_LINE \/ IsBlockDoc(c))
                 /\ c.line_end > c.line_start) =>
                    LET new == Regenerated(c, LeadingIndent(src[c.line_start]),
                                           translations[k])
                        at == ShiftedStart(parser, content, translations, pr, k)
                        got_lines == Split(out.text)
                    IN  /\ ~out.raised
                        /\ Slice(got_lines, at, at + Len(new)) = new
                        /\ Growth(parser, content, translations, pr, k)
                              = Len(new) - (c.line_end - c.line_start + 1)
                        /\ DOMAIN translations = {k} =>
                              got_lines = SubSeq(src, 1, c.line_start - 1) \o new
                                          \o SubSeq(src, c.line_end + 1, Len(src))

\* the delimiter a docstring is written with in the source: its first line
\* holds the opening delimiter
SourceQuote(text, c) ==
    IF Contains(Split(text)[c.line_start], DQ3) THEN DQ3 ELSE SQ3

\* str.endswith
EndsWith(s, p) == MatchAt(s, p, Len(s) - Len(p))

\* C19: docstring quote fidelity: after parse and inject_translations of a
\* translation for one docstring, the docstring is re-emitted with the
\* delimiter it was written with: ''' stays ''' and """ stays """.
C19_QuoteFidelity ==
    (/\ Injected
     /\ parser = "PythonParser"
     /\ ValidKeys(translations, Len(pr.comments))
     /\ Cardinality(DOMAIN translations) = 1) =>
        \A k \in DOMAIN translations :
            LET c == pr.comments[k + 1]
                quote == SourceQuote(content, c)
                tl == Split(translations[k])
                count == IF c.line_start = c.line_end THEN Len(tl) ELSE Len(tl) + 2
                got_lines == Split(out.text)
            IN  c.type = DOCSTRING =>
                    /\ ~out.raised
                    /\ StartsWith(LStrip(got_lines[c.line_start], {" ", "\t"}), quote)
                    /\ EndsWith(got_lines[c.line_start + count - 1], quote)

\* region r of FencedRegions(lines) is closed by a fence line
IsClosed(lines, r) == r.last > r.first /\ FenceMatch(lines[r.last])

\* the content lines of a fenced region: [first, last] line numbers, last < first
\* when it has none
ContentOf(lines, r) ==
    [first |-> r.first + 1,
     last |-> IF IsClosed(lines, r) THEN r.last - 1 ELSE r.last]

\* the lines of a document that lie in a fenced region, fence lines included
FencedLines(lines) ==
    LET rs == FencedRegions(lines)
    IN  {i \in 1..Len(lines) : \E k \in 1..Len(rs) : rs[k].first <= i /\ i <= rs[k].last}

\* the first lines of the maximal runs of lines outside fenced regions
RunStarts(lines) ==
    LET fenced == FencedLines(lines)
    IN  {i \in (1..Len(lines)) \ fenced : i = 1 \/ (i - 1) \in fenced}

\* the last line of the run that starts at line s
RunEnd(lines, s) ==
    LET fenced == FencedLines(lines)
    IN  Max({e \in s..Len(lines) : \A i \in s..e : i \notin fenced})

\* C20: markdown block counts: MarkdownParser.parse yields exactly one
\* is_code=true TextBlock per fenced block with at least one content line and
\* exactly one is_code=false TextBlock per maximal run of lines outside
\* fences; a prose paragraph, a fenced python block and a second prose
\* paragraph yield 2 blocks with is_code=false and 1 with is_code=true and
\* code_language "python".
C20_BlockCounts ==
    (Parsed /\ parser = "MarkdownParser") =>
        LET lines == Split(content)
            rs == FencedRegions(lines)
            filled == {k \in 1..Len(rs) :
                          ContentOf(lines, rs[k]).last >= ContentOf(lines, rs[k]).first}
            starts == RunStarts(lines)
            bs == pr.text_blocks
            code == {b \in 1..Len(bs) : bs[b].is_code}
            prose == {b \in 1..Len(bs) : ~bs[b].is_code}
        IN  /\ Cardinality(code) = Cardinality(filled)
            /\ Cardinality(prose) = Cardinality(starts)
            /\ \A k \in filled :
                  Cardinality({b \in code :
                      /\ bs[b].line_start = rs[k].first
                      /\ bs[b].line_end = ContentOf(lines, rs[k]).last
                      /\ bs[b].code_language = FenceLang(lines[rs[k].first])}) = 1
            /\ \A s \in starts :
                  Cardinality({b \in prose :
                      /\ bs[b].line_start = s
                      /\ bs[b].line_end = RunEnd(lines, s)}) = 1
            /\ content = MdDocument =>
                  /\ Cardinality(prose) = 2
                  /\ Cardinality(code) = 1
                  /\ \A b \in code :
                        bs[b].code_language = <<"p", "y", "t", "h", "o", "n">>

\* the document of a prose paragraph, a fenced python block and a second
\* prose paragraph, followed by a fence left open, was parsed
C20_Witness ==
    /\ Parsed
    /\ parser = "MarkdownParser"
    /\ StartsWith(content, MdDocument)
    /\ Len(content) > Len(MdDocument)
    /\ Len(FencedRegions(Split(content))) = 2
    /\ Len(pr.text_blocks) = 3

\* the fence lines of a document
FenceLines(lines) == {i \in 1..Len(lines) : FenceMatch(lines[i])}

\* the blocks (1-based positions in bs) whose range holds line i
BlocksAt(bs, i) == {b \in 1..Len(bs) : bs[b].line_start <= i /\ i <= bs[b].line_end}

\* C21: TextBlocks partition the document: in every ParseResult of
\* MarkdownParser.parse the ranges [line_start, line_end] of the text_blocks
\* are in ascending source order and pairwise disjoint, every line that is not
\* a fence line lies in exactly one block's range, and no fence line lies in
\* any block's range.
C21_BlocksPartition ==
    (Parsed /\ parser = "MarkdownParser") =>
        LET lines == Split(content)
            bs == pr.text_blocks
        IN  /\ \A b \in 1..Len(bs) : bs[b].line_start <= bs[b].line_end
            /\ \A b \in 1..(Len(bs) - 1) : bs[b].line_end < bs[b + 1].line_start
            /\ \A i \in (1..Len(lines)) \ FenceLines(lines) :
                  Cardinality(BlocksAt(bs, i)) = 1
            /\ \A i \in FenceLines(lines) : BlocksAt(bs, i) = {}

\* the comments of cs recorded on line i, in list order
CommentsOn(cs, i) == SelectSeq(cs, LAMBDA c : c.line_start = i)

\* C22: markdown HTML comments are extracted twice: for every <!-- x -->
\* occurrence on a line outside a fence, parse adds a Comment of kind
\* multi-line with text strip(x) and line_start = line_end = that line, and
\* the same line, comment included, is still part of the text of its enclosing
\* is_code=false TextBlock; no Comment comes from a line inside a fenced block
\* or from a fence line.
C22_HtmlCommentsTwice ==
    (Parsed /\ parser = "MarkdownParser") =>
        LET lines == Split(content)
            fenced == FencedLines(lines)
            cs == pr.comments
            bs == pr.text_blocks
        IN  /\ \A k \in 1..Len(cs) :
                  /\ cs[k].type = MULTI_LINE
                  /\ cs[k].line_end = cs[k].line_start
                  /\ cs[k].line_start \in (1..Len(lines)) \ fenced
            /\ \A i \in (1..Len(lines)) \ fenced :
                  LET found == HtmlComments(lines[i])
                      on == CommentsOn(cs, i)
                  IN  /\ Len(on) = Len(found)
                      /\ \A k \in 1..Len(found) : on[k].text = Strip(found[k])
                      /\ found # << >> =>
                            \E b \in 1..Len(bs) :
                                /\ ~bs[b].is_code
                                /\ bs[b].line_start <= i
                                /\ i <= bs[b].line_end
                                /\ Split(bs[b].text)[i - bs[b].line_start + 1] = lines[i]

\* a prose line with two HTML comments, one of them padded with blanks, was
\* parsed in a document whose fence line and fenced line hold HTML comments too
C22_Witness ==
    /\ Parsed
    /\ parser = "MarkdownParser"
    /\ LET lines == Split(content)
           fenced == FencedLines(lines)
       IN  /\ \E i \in (1..Len(lines)) \ fenced :
                 /\ Len(HtmlComments(lines[i])) = 2
                 /\ \E k \in 1..2 :
                       Strip(HtmlComments(lines[i])[k]) # HtmlComments(lines[i])[k]
           /\ \E i \in fenced : FenceMatch(lines[i]) /\ HtmlComments(lines[i]) # << >>
           /\ \E i \in fenced : ~FenceMatch(lines[i]) /\ HtmlComments(lines[i]) # << >>
    /\ Len(pr.comments) = 2

\* the marker a single-line comment is written with
LineMarker(cls) == IF cls = "PythonParser" THEN <<"#">> ELSE <<"/", "/">>

\* C23: single-line comment injection preserves the prefix: for a SINGLE_LINE
\* comment recorded at column_start c on line L, the Python injector produces
\* the line L[:c] + "# " + translated and the C/C++ injector produces
\* L[:c] + "// " + translated, also when the marker characters occur earlier
\* on the line inside a string literal.
C23_PrefixPreserved ==
    (/\ Injected
     /\ HasColumns
     /\ ValidKeys(translations, Len(pr.comments))
     /\ Cardinality(DOMAIN translations) = 1) =>
        \A k \in DOMAIN translations :
            LET c == pr.comments[k + 1]
                src == Split(content)
                L == src[c.line_start]
                new == Slice(L, 0, c.column_start) \o LineMarker(parser)
                       \o <<" ">> \o translations[k]
            IN  c.type = SINGLE_LINE =>
                    /\ ~out.raised
                    /\ out.text = Join(SubSeq(src, 1, c.line_start - 1) \o <<new>>
                                       \o SubSeq(src, c.line_start + 1, Len(src)))

\* the docstring written for a translated text: the compact form for a
\* one-line text, the block form otherwise
DocstringLayout(indent, quote, translated) ==
    LET tl == Split(translated)
    IN  IF Len(tl) = 1
        THEN <<indent \o quote \o translated \o quote>>
        ELSE <<indent \o quote>>
             \o [j \in 1..Len(tl) |-> indent \o <<" ", " ", " ", " ">> \o tl[j]]
             \o <<indent \o quote>>

\* C24: docstring layout follows the translated text: the Python injector
\* emits the compact one-line form <indent><quote><text><quote> exactly when
\* the translated text is a single line, and otherwise an opening quote line,
\* one indented line per translated line and a closing quote line; in both
\* cases the output replaces the whole original range [line_start, line_end].
C24_DocstringLayout ==
    (/\ Injected
     /\ parser = "PythonParser"
     /\ ValidKeys(translations, Len(pr.comments))
     /\ Cardinality(DOMAIN translations) = 1) =>
        \A k \in DOMAIN translations :
            LET c == pr.comments[k + 1]
                src == Split(content)
                quote == IF Contains(c.original, DQ3) THEN DQ3 ELSE SQ3
                new == DocstringLayout(LeadingIndent(src[c.line_start]), quote,
                                       translations[k])
            IN  c.type = DOCSTRING =>
                    /\ ~out.raised
                    /\ Split(out.text) = SubSeq(src, 1, c.line_start - 1) \o new
                                         \o SubSeq(src, c.line_end + 1, Len(src))

\* C27: TextBlock text matches its recorded range: for every TextBlock that
\* MarkdownParser.parse returns, code blocks included, text is the
\* newline-join of exactly the document lines line_start..line_end, so text
\* has line_end - line_start + 1 lines.
C27_TextMatchesRange ==
    (Parsed /\ parser = "MarkdownParser") =>
        LET lines == Split(content)
            bs == pr.text_blocks
        IN  \A b \in 1..Len(bs) :
                /\ 1 <= bs[b].line_start
                /\ bs[b].line_end <= Len(lines)
                /\ bs[b].text = Join(SubSeq(lines, bs[b].line_start, bs[b].line_end))
                /\ Len(Split(bs[b].text)) = bs[b].line_end - bs[b].line_start + 1

\* every line of the text translated occurs in result
PresentIn(result, translated) ==
    \A j \in 1..Len(Split(translated)) : Contains(result, Split(translated)[j])

\* C28: no translation is lost or overwritten by another: for the Python and
\* C/C++ injectors and any translations map over valid indices, the translated
\* text of every targeted comment is present in the output, also when two
\* comments (or a docstring and a trailing comment) start on the same line.
C28_NoTranslationLost ==
    (/\ Injected
     /\ parser \in {"PythonParser", "CCppParser"}
     /\ ValidKeys(translations, Len(pr.comments))) =>
        /\ ~out.raised
        /\ \A k \in DOMAIN translations : PresentIn(out.text, translations[k])

\* the keys of T that are indices of a list of length n
InRange(T, n) == {k \in DOMAIN T : 0 <= k /\ k < n}

\* C29: out-of-range keys never touch the content: for every parser, a
\* translations key that is not in the range 0..len(list)-1, negative keys
\* included, leaves the content unchanged and raises no error: the output is
\* the one of the in-range keys alone, and the content itself when no key is
\* in range.
C29_OutOfRangeIgnored ==
    Injected =>
        LET valid == InRange(translations, Len(SpanList(parser, pr)))
        IN  /\ ~out.raised
            /\ valid = {} => out.text = content
            /\ out.text = InjectTranslations(parser, content,
                              Restrict(translations, valid), pr).text

---------------------------------------------------------------------------
(* Properties of the translator *)

C14_NeverBlank ==
    \A c \in 1..Len(calls) :
        \A k \in 1..Len(calls[c].batch) :
            (/\ calls[c].batch[k] # << >>
             /\ k <= Len(calls[c].returned)) =>
                calls[c].returned[k] # << >>


---------------------------------------------------------------------------
(* Properties of load_config *)

SettingKeys == DOMAIN DEFAULTS

\* layer gives a value other than None to setting k
Provides(layer, k) == k \in DOMAIN layer /\ layer[k] # None

\* the layers as the caller and the environment supply them, highest priority
\* first: CLI arguments, project config file, global user config, environment
\* variables, defaults
LayersOf(args, project, global, env) ==
    <<IF args = None THEN EmptyDict ELSE args[1],
      LoadJsonFile(project),
      LoadJsonFile(global),
      [k \in {j \in DOMAIN EnvNames : EnvNames[j] \in DOMAIN env} |-> Val(env[EnvNames[k]])],
      DEFAULTS>>

\* the value of the first layer that provides k, None when none does
FirstProvided(layers, k) ==
    LET ps == {i \in 1..Len(layers) : Provides(layers[i], k)}
    IN  IF ps = {} THEN None ELSE layers[Min(ps)][k]

\* C25: layered configuration priority: for every setting key, load_config
\* returns the value of the highest-priority layer (CLI arguments > project
\* config file > global user config > environment variables > defaults) that
\* provides a non-None value for that key; a None value in a higher layer
\* never hides a lower layer's value.
C25_LayerPriority ==
    pc = "configured" =>
        \A k \in SettingKeys :
            config[k] = FirstProvided(
                LayersOf(cli_args, projectFile, globalFile, environ), k)

\* a setting that is None in the CLI arguments and null in the project file
\* came from the global file although the environment sets it too, a bool
\* that is False on the command line and true in the project file came from
\* the command line, and a setting no layer gives kept its default
C25_Witness ==
    /\ pc = "configured"
    /\ cli_args # None
    /\ "model" \in DOMAIN cli_args[1] /\ cli_args[1]["model"] = None
    /\ "model" \in DOMAIN LoadJsonFile(projectFile)
    /\ LoadJsonFile(projectFile)["model"] = None
    /\ "REPO_TRANSLATE_MODEL" \in DOMAIN environ
    /\ config["model"] = Val("global")
    /\ Provides(cli_args[1], "push") /\ Provides(LoadJsonFile(projectFile), "push")
    /\ config["push"] = Val(FALSE)
    /\ config["batch_size"] = Val(10)


---------------------------------------------------------------------------
(* Properties of the credential store *)

\* the last set_auth or remove call on provider p before call i, 0 when none
LastWrite(log, i, p) ==
    LET ws == {j \in 1..(i - 1) :
                  log[j].provider = p /\ log[j].op \in {"set_auth", "remove"}}
    IN  IF ws = {} THEN 0 ELSE Max(ws)

\* provider p is stored before call i: its last write was a set_auth
Stored(log, i, p) ==
    LastWrite(log, i, p) # 0 /\ log[LastWrite(log, i, p)].op = "set_auth"

\* the entries of the providers other than the call's own are the same
\* before and after the call
OthersUnchanged(c) ==
    \A q \in Providers \ {c.provider} :
        /\ q \in DOMAIN c.before <=> q \in DOMAIN c.after
        /\ q \in DOMAIN c.before => c.before[q] = c.after[q]

\* the writes leave other providers alone, remove tells whether the provider
\* was stored, and each call reads what the call before it left in the file
WritesAreLocal ==
    \A i \in 1..Len(authLog) :
        LET c == authLog[i]
        IN  /\ OthersUnchanged(c)
            /\ c.op = "remove" =>
                  (c.returned = Stored(authLog, i, c.provider))
            /\ i > 1 => c.before = authLog[i - 1].after
            /\ i = Len(authLog) => LoadAuthData(authFile) = c.after

\* an Optional[str] as it is read back: "" is read back as None
ReadBack(o) == IF o = Val("") THEN None ELSE o

\* info with its empty string fields read back as None
Normalised(info) ==
    [info EXCEPT !.key = ReadBack(@), !.base_url = ReadBack(@),
                 !.model = ReadBack(@), !.refresh_token = ReadBack(@),
                 !.access_token = ReadBack(@)]

\* C26 as amended: for any sequence of set_auth and remove calls, get(p)
\* returns an AuthInfo equal field by field to the info of the most recent
\* set_auth(p, info), except that a string field given as "" is read back as
\* None, if no remove(p) followed it, and None otherwise; set_auth and remove
\* on provider p leave the stored entries of every other provider unchanged,
\* and remove(p) returns True exactly when p was stored.
C26_ReadAfterWriteNormalised ==
    /\ WritesAreLocal
    /\ \A i \in 1..Len(authLog) :
          LET c == authLog[i]
              w == LastWrite(authLog, i, c.provider)
          IN  c.op = "get" =>
                  c.returned = IF Stored(authLog, i, c.provider)
                               THEN Val(Normalised(authLog[w].info[1]))
                               ELSE None

\* a get returned the info set for its provider after the other provider was
\* set and removed, the info having an empty string field
C26_Witness ==
    /\ Len(authLog) >= 3
    /\ \E i \in 1..Len(authLog) :
          LET c == authLog[i]
              w == LastWrite(authLog, i, c.provider)
          IN  /\ c.op = "get"
              /\ Stored(authLog, i, c.provider)
              /\ authLog[w].info[1] # Normalised(authLog[w].info[1])
              /\ c.returned = Val(Normalised(authLog[w].info[1]))
    /\ \E i \in 1..Len(authLog) :
          authLog[i].op = "set_auth" /\ authLog[i].before # EmptyDict

\* C26: auth store read-after-write: for any sequence of set_auth and remove
\* calls, get(p) returns an AuthInfo equal field by field to the info of the
\* most recent set_auth(p, info) if no remove(p) followed it, and None
\* otherwise; set_auth and remove on provider p leave the stored entries of
\* every other provider unchanged, and remove(p) returns True exactly when p
\* was stored.
C26_ReadAfterWrite ==
    /\ WritesAreLocal
    /\ \A i \in 1..Len(authLog) :
          LET c == authLog[i]
              w == LastWrite(authLog, i, c.provider)
          IN  c.op = "get" =>
                  c.returned = IF Stored(authLog, i, c.provider)
                               THEN authLog[w].info
                               ELSE None


\* the requests of kind among rs
CountOf(rs, kind) == Cardinality({j \in 1..Len(rs) : rs[j] = kind})

=============================================================================
